---- MODULE Spec2Model ----
(***************************************************************************)
(* A model of texti, a terminal text editor: the App event loop, the       *)
(* NavigatorComponent, the Home and Editor screens with their modal        *)
(* children, the background file tasks and the file system they touch.     *)
(*                                                                         *)
(* Every component is a record; every method of the source is an operator  *)
(* from the component's record (and the call's arguments) to a reply       *)
(*   [st, res, acts, asyncs, spawns]                                       *)
(* holding the component after the call, the ActionResult returned, the    *)
(* Actions and AsyncActions the call sent on the two channels and the      *)
(* background tasks it spawned.  Option<T> is a sequence of length <= 1.   *)
(***************************************************************************)
EXTENDS Integers, Sequences, FiniteSets, TLC

VARIABLES
    fs,       \* the file system: path -> [kind, data]
    tasks,    \* background tasks spawned with tokio::spawn and not yet finished
    actionq,  \* App.action_sender / action_receiver (unbounded mpsc channel)
    asyncq,   \* App.async_action_sender / async_action_receiver
    app,      \* App: position in run(), should_quit, should_rerender
    nav,      \* App.component: the NavigatorComponent and its active component
    last,     \* history: the last call made on a component and its reply
    wf,       \* harness of write_file: the call's arguments and its result
    pv        \* harness of PreviewComponent: the component, its task, its channel

vars == <<fs, tasks, actionq, asyncq, app, nav, last, wf, pv>>

-----------------------------------------------------------------------------
(* Bounds of the model *)

MaxName == 2   \* longest file name the user types
MaxText == 2   \* longest buffer text and file content
MaxTasks == 2  \* background tasks in flight at once
MaxQueue == 2  \* AsyncActions waiting on the channel
MaxEvents == 4 \* events App::run handles

-----------------------------------------------------------------------------
(* Values *)

None == <<>>
Some(x) == <<x>>
IsSome(o) == Len(o) = 1
Unwrap(o) == o[1]

Chars == {"a"}

RECURSIVE TextsUpTo(_)
TextsUpTo(n) ==
    IF n = 0 THEN {<<>>}
    ELSE TextsUpTo(n - 1) \cup
         {Append(t, c) : t \in {u \in TextsUpTo(n - 1) : Len(u) = n - 1}, c \in Chars}

Texts == TextsUpTo(MaxText)
Names == TextsUpTo(MaxName) \ {<<>>}

\* A path is the sequence of its components: "/" is <<>>, the directory the
\* program is started in is "/d", and the files are /d/<name>.
Root == <<>>
DirName == <<"d">>
Cwd == <<DirName>>
FilePath(n) == <<DirName, n>>
FilePaths == {FilePath(n) : n \in Names}
Paths == {Root, Cwd} \cup FilePaths

parent(path) == IF path = Root THEN None ELSE Some(SubSeq(path, 1, Len(path) - 1))
join(path, name) == Append(path, name)
file_name(path) == path[Len(path)]

NoFile == [kind |-> "none", data |-> <<>>]
Dir == [kind |-> "dir", data |-> <<>>]
File(t) == [kind |-> "file", data |-> t]
FileVals == {NoFile, Dir} \cup {File(t) : t \in Texts}

exists(fsv, path) == fsv[path].kind # "none"
is_dir(fsv, path) == fsv[path].kind = "dir"

\* SaveFileResult
Saved(path) == [tag |-> "Saved", path |-> Some(path)]
SaveError == [tag |-> "Error", path |-> None]
MissingName == [tag |-> "MissingName", path |-> None]
ConfirmOverwrite == [tag |-> "ConfirmOverwrite", path |-> None]

\* What the operating system answers to the calls a task makes.
WriteIo == {"ok", "mkdir_fails", "create_fails", "write_fails", "flush_fails"}
ReadIo == {"ok", "read_fails"}

\* write_file: the new file system and the SaveFileResult.
write_file_overwriting(fsv, path, lines, overwrite, io) ==
    IF ~exists(fsv, path) /\ io = "mkdir_fails" THEN [fs |-> fsv, result |-> SaveError]
    ELSE IF is_dir(fsv, path) THEN [fs |-> fsv, result |-> MissingName]
    ELSE IF io = "create_fails" THEN [fs |-> fsv, result |-> SaveError]
    ELSE IF io = "write_fails"
        THEN [fs |-> [fsv EXCEPT ![path] = File(<<>>)], result |-> SaveError]
    ELSE IF io = "flush_fails"
        THEN [fs |-> [fsv EXCEPT ![path] = File(lines)], result |-> SaveError]
    ELSE [fs |-> [fsv EXCEPT ![path] = File(lines)], result |-> Saved(path)]

write_file(fsv, path, lines, overwrite, io) ==
    IF exists(fsv, path) /\ ~overwrite
        THEN [fs |-> fsv, result |-> ConfirmOverwrite]
    ELSE IF ~exists(fsv, path) /\ io = "mkdir_fails"
        THEN [fs |-> fsv, result |-> SaveError]
    ELSE IF is_dir(fsv, path) THEN [fs |-> fsv, result |-> MissingName]
    ELSE IF io = "create_fails" THEN [fs |-> fsv, result |-> SaveError]
    ELSE IF io = "write_fails"
        THEN [fs |-> [fsv EXCEPT ![path] = File(<<>>)], result |-> SaveError]
    ELSE IF io = "flush_fails"
        THEN [fs |-> [fsv EXCEPT ![path] = File(lines)], result |-> SaveError]
    ELSE [fs |-> [fsv EXCEPT ![path] = File(lines)], result |-> Saved(path)]

\* util::read_dir: the AsyncAction a load task sends for `path`.
LoadFileContents(text, src) == [tag |-> "LoadFileContents", text |-> text, src |-> src]
AsyncError(src) == [tag |-> "Error", src |-> src]

read_dir(fsv, path, io) ==
    IF ~exists(fsv, path) \/ is_dir(fsv, path) THEN LoadFileContents(<<>>, path)
    ELSE IF io = "read_fails" THEN AsyncError(path)
    ELSE LoadFileContents(fsv[path].data, path)

-----------------------------------------------------------------------------
(* action.rs: Action, AsyncAction, SelectorType, ActionResult; mod.rs: AppComponent *)

Act(tag) == [tag |-> tag, ch |-> None]
Character(c) == [tag |-> "Character", ch |-> Some(c)]
\* PasteText(text): ch holds the text
PasteText(t) == [tag |-> "PasteText", ch |-> t]

SavedFile(result) == [tag |-> "SavedFile", result |-> result]
Navigate(screen) == [tag |-> "Navigate", screen |-> screen]
SelectPath(path, selector_type) ==
    [tag |-> "SelectPath", path |-> path, selector_type |-> selector_type]
StartAnimation == [tag |-> "StartAnimation"]
StopAnimation == [tag |-> "StopAnimation"]
PreviewContents(contents, src) == [tag |-> "PreviewContents", contents |-> contents, src |-> src]

SelectorTypes == {"PickFolder", "PickFile", "NewFile"}
show_files(selector_type) == selector_type = "PickFile"
can_pick_folder(selector_type) == selector_type # "PickFile"

HomeScreen == [tag |-> "HomeScreen", path |-> None]
OpenedEditor(path) == [tag |-> "OpenedEditor", path |-> Some(path)]
FileDialog == [tag |-> "FileDialog", path |-> None]
Editor == [tag |-> "Editor", path |-> None]
Dialog == [tag |-> "Dialog", path |-> None]

consumed(rerender) == [consumed |-> TRUE, rerender |-> rerender]
not_consumed(rerender) == [consumed |-> FALSE, rerender |-> rerender]
DefaultResult == not_consumed(FALSE)
is_consumed(res) == res.consumed
should_rerender(res) == res.rerender

\* What a call on a component answers: the component after the call, the
\* ActionResult, and what the call sent and spawned.
Reply(st, res) == [st |-> st, res |-> res, acts |-> <<>>, asyncs |-> <<>>, spawns |-> <<>>]
Sending(r, action) == [r EXCEPT !.acts = Append(@, action)]
SendingAsync(r, action) == [r EXCEPT !.asyncs = Append(@, action)]
Spawning(r, task) == [r EXCEPT !.spawns = Append(@, task)]
\* The reply of a parent that made the child's call as part of its own.
Lift(r, st) == [r EXCEPT !.st = st]

LoadTask(path) == [kind |-> "load", path |-> path, lines |-> <<>>, overwrite |-> FALSE]
SaveTask(path, lines, overwrite) ==
    [kind |-> "save", path |-> path, lines |-> lines, overwrite |-> overwrite]

-----------------------------------------------------------------------------
(* mod.rs TickCount, notification.rs NotificationComponent *)

TICKS_UNTIL_REMOVE_POPUP == 2

Notification(text, error) ==
    [text |-> text, error |-> error, count |-> TICKS_UNTIL_REMOVE_POPUP]

notify_text(text) == Some(Notification(text, FALSE))
notify_error(text) == Some(Notification(text, TRUE))

\* TickCount::countdown with NotificationComponent::handle_tick_action
handle_tick_action(notification) ==
    IF IsSome(notification)
        THEN Reply(IF Unwrap(notification).count = 0 THEN None
                   ELSE Some([Unwrap(notification) EXCEPT !.count = @ - 1]),
                   consumed(TRUE))
        ELSE Reply(notification, DefaultResult)

Notification_handle_action(notification, action) ==
    CASE action.tag = "Tick" -> handle_tick_action(notification)
      [] action.tag = "Cancel" ->
            IF IsSome(notification) THEN Reply(None, consumed(TRUE))
            ELSE Reply(notification, DefaultResult)
      [] OTHER -> Reply(notification, DefaultResult)

-----------------------------------------------------------------------------
(* confirm_dialog.rs ConfirmDialogComponent: the state is action_on_confirm *)

ConfirmDialog_show(action_on_confirm) == Some(action_on_confirm)
ConfirmDialog_visible(dialog) == IsSome(dialog)

\* a dialog that stays up after Confirm
ConfirmDialog_handle_action_staying(dialog, action) ==
    IF ~ConfirmDialog_visible(dialog) THEN Reply(dialog, not_consumed(FALSE))
    ELSE CASE action.tag = "Confirm" ->
                Sending(Reply(dialog, consumed(TRUE)), Unwrap(dialog))
           [] action.tag = "Cancel" -> Reply(None, consumed(TRUE))
           [] OTHER -> Reply(dialog, consumed(FALSE))

ConfirmDialog_handle_action(dialog, action) ==
    IF ~ConfirmDialog_visible(dialog) THEN Reply(dialog, not_consumed(FALSE))
    ELSE CASE action.tag = "Confirm" ->
                Sending(Reply(None, consumed(TRUE)), Unwrap(dialog))
           [] action.tag = "Cancel" -> Reply(None, consumed(TRUE))
           [] OTHER -> Reply(dialog, consumed(FALSE))

-----------------------------------------------------------------------------
(* file_selector/mod.rs PathChild, input.rs FileSelectorInput,
   component.rs FileSelectorComponent.  The preview pane the selector owns
   is modelled on its own (the variable pv). *)

MoveUp == [kind |-> "MoveUp", name |-> <<>>]
Folder(name) == [kind |-> "Folder", name |-> name]
FileEntry(name) == [kind |-> "File", name |-> name]

Lower(c) == IF c = "A" THEN "a" ELSE c
to_lowercase(t) == [i \in 1..Len(t) |-> Lower(t[i])]
contains(t, f) ==
    \E i \in 0..(Len(t) - Len(f)) : SubSeq(t, i + 1, i + Len(f)) = f

\* PathChild::filter
PathChild_filter(child, f) ==
    child.kind = "MoveUp" \/ contains(to_lowercase(child.name), f)

RECURSIVE SeqOfSet(_)
SeqOfSet(S) ==
    IF S = {} THEN <<>>
    ELSE LET x == CHOOSE y \in S : \A z \in S : Len(y) <= Len(z)
         IN <<x>> \o SeqOfSet(S \ {x})

\* The entries Path::read_dir yields for `dir`, in the order they are read.
dir_entries(fsv, dir) ==
    IF dir = Root THEN <<Cwd>>
    ELSE SeqOfSet({q \in FilePaths : exists(fsv, q)})

RECURSIVE list_children(_, _, _)
list_children(fsv, entries, selector_type) ==
    IF entries = <<>> THEN <<>>
    ELSE LET path == Head(entries)
             rest == list_children(fsv, Tail(entries), selector_type)
         IN IF is_dir(fsv, path) THEN <<Folder(file_name(path))>> \o rest
            ELSE IF show_files(selector_type) THEN <<FileEntry(file_name(path))>> \o rest
            ELSE rest

FileSelector_default ==
    [visible |-> FALSE, selector_type |-> "PickFile", current_path |-> Root,
     children |-> <<>>, filtered_paths |-> None,
     text_area |-> None, filter |-> None, selected |-> None]

\* FileSelectorInput::change_type
change_type(sel, selector_type) ==
    IF selector_type = "NewFile"
        THEN [sel EXCEPT !.selector_type = selector_type, !.text_area = Some(<<>>)]
        ELSE [sel EXCEPT !.selector_type = selector_type, !.filter = Some(<<>>)]

\* FileSelectorInput::current_filter, current_text_area
current_filter(sel) ==
    IF IsSome(sel.filter) /\ Unwrap(sel.filter) # <<>> THEN sel.filter ELSE None
current_text_area(sel) ==
    IF IsSome(sel.text_area) /\ Unwrap(sel.text_area) # <<>> THEN sel.text_area ELSE None

refresh_filtered_items(sel) ==
    IF IsSome(current_filter(sel))
        THEN LET f == to_lowercase(Unwrap(current_filter(sel)))
                 Keep(child) == PathChild_filter(child, f)
             IN [sel EXCEPT !.filtered_paths = Some(SelectSeq(sel.children, Keep))]
        ELSE [sel EXCEPT !.filtered_paths = None]

select_dir(sel, fsv, dir) ==
    IF ~(dir \in DOMAIN fsv /\ is_dir(fsv, dir)) THEN sel
    ELSE refresh_filtered_items(
            [sel EXCEPT !.selected = None,
                        !.children = <<MoveUp>> \o
                            list_children(fsv, dir_entries(fsv, dir), sel.selector_type),
                        !.current_path = dir])

FileSelector_show(sel, fsv, dir, selector_type) ==
    select_dir([change_type(sel, selector_type) EXCEPT !.visible = TRUE], fsv, dir)

FileSelector_hide(sel) ==
    [sel EXCEPT !.visible = FALSE, !.filter = None, !.text_area = None, !.selected = None]

active_list(sel) ==
    IF IsSome(sel.filtered_paths) THEN Unwrap(sel.filtered_paths) ELSE sel.children

\* select that takes a folder as the choice whenever the type allows it,
\* whichever of Confirm and Select asked
FileSelector_select_picking_on_confirm(sel, fsv, folder) ==
    IF ~IsSome(sel.selected)
        THEN LET path == IF IsSome(current_text_area(sel))
                            THEN join(sel.current_path, Unwrap(current_text_area(sel)))
                            ELSE sel.current_path
             IN SendingAsync(Reply(sel, consumed(TRUE)), SelectPath(path, sel.selector_type))
    ELSE IF Unwrap(sel.selected) >= Len(sel.children) THEN Reply(sel, consumed(FALSE))
    ELSE LET child == sel.children[Unwrap(sel.selected) + 1]
             pick == can_pick_folder(sel.selector_type)
             path == join(sel.current_path, child.name)
         IN CASE child.kind = "Folder" /\ ~pick ->
                    Reply(select_dir(sel, fsv, path), consumed(TRUE))
              [] child.kind = "MoveUp" ->
                    Reply(select_dir(sel, fsv, Unwrap(parent(sel.current_path))),
                          consumed(TRUE))
              [] OTHER ->
                    SendingAsync(Reply(FileSelector_hide(sel), consumed(TRUE)),
                                 SelectPath(path, sel.selector_type))

\* FileSelectorComponent::select.  list_state indices count from 0.
FileSelector_select(sel, fsv, folder) ==
    IF ~IsSome(sel.selected)
        THEN LET path == IF IsSome(current_text_area(sel))
                            THEN join(sel.current_path, Unwrap(current_text_area(sel)))
                            ELSE sel.current_path
             IN SendingAsync(Reply(sel, consumed(TRUE)), SelectPath(path, sel.selector_type))
    ELSE IF Unwrap(sel.selected) >= Len(sel.children) THEN Reply(sel, consumed(FALSE))
    ELSE LET child == sel.children[Unwrap(sel.selected) + 1]
             pick == folder /\ can_pick_folder(sel.selector_type)
             path == join(sel.current_path, child.name)
         IN CASE child.kind = "Folder" /\ ~pick ->
                    Reply(select_dir(sel, fsv, path), consumed(TRUE))
              [] child.kind = "MoveUp" ->
                    \* current_path.parent().unwrap(): the caller rules out Root
                    Reply(select_dir(sel, fsv, Unwrap(parent(sel.current_path))),
                          consumed(TRUE))
              [] OTHER ->
                    SendingAsync(Reply(FileSelector_hide(sel), consumed(TRUE)),
                                 SelectPath(path, sel.selector_type))

\* select() panics on the move-up entry of "/"
FileSelector_select_panics(sel) ==
    /\ IsSome(sel.selected)
    /\ Unwrap(sel.selected) < Len(sel.children)
    /\ sel.children[Unwrap(sel.selected) + 1].kind = "MoveUp"
    /\ sel.current_path = Root

\* FileSelectorInput::handle_character with FileSelectorComponent::handle_character
FileSelector_handle_character(sel, c) ==
    IF IsSome(sel.text_area)
        THEN Reply(refresh_filtered_items(
                       [sel EXCEPT !.text_area = Some(Append(Unwrap(@), c))]),
                   consumed(TRUE))
    ELSE IF IsSome(sel.filter)
        THEN Reply([sel EXCEPT !.filter = Some(Append(Unwrap(@), c))], DefaultResult)
    ELSE Reply(sel, DefaultResult)

DropLast(t) == SubSeq(t, 1, Len(t) - 1)

\* FileSelectorInput::backspace with FileSelectorComponent::handle_backspace
FileSelector_handle_backspace(sel) ==
    IF IsSome(sel.text_area)
        THEN IF Unwrap(sel.text_area) # <<>>
                THEN Reply(refresh_filtered_items(
                               [sel EXCEPT !.text_area = Some(DropLast(Unwrap(@)))]),
                           consumed(TRUE))
                ELSE Reply(sel, DefaultResult)
    ELSE IF IsSome(sel.filter) /\ Unwrap(sel.filter) # <<>>
        THEN Reply(refresh_filtered_items(
                       [sel EXCEPT !.filter = Some(DropLast(Unwrap(@)))]),
                   consumed(TRUE))
    ELSE Reply(sel, DefaultResult)

move_cursor_up(sel) ==
    IF IsSome(sel.selected)
        THEN IF Unwrap(sel.selected) = 0 THEN Reply(sel, consumed(FALSE))
             ELSE Reply([sel EXCEPT !.selected = Some(Unwrap(@) - 1)], consumed(TRUE))
    ELSE IF Len(active_list(sel)) > 0
        THEN Reply([sel EXCEPT !.selected = Some(Len(active_list(sel)) - 1)],
                   consumed(TRUE))
    ELSE Reply(sel, DefaultResult)

move_cursor_down(sel) ==
    IF IsSome(sel.selected)
        THEN IF Unwrap(sel.selected) = Len(active_list(sel)) - 1
                THEN Reply(sel, consumed(FALSE))
                ELSE Reply([sel EXCEPT !.selected = Some(Unwrap(@) + 1)], consumed(TRUE))
    ELSE IF Len(active_list(sel)) > 0
        THEN Reply([sel EXCEPT !.selected = Some(0)], consumed(TRUE))
    ELSE Reply(sel, DefaultResult)

\* FileSelectorInput::delete with FileSelectorComponent::handle_delete: the
\* input's cursor is after its last character, where delete_next_char
\* removes nothing, and handle_delete is read as handle_backspace is
FileSelector_handle_delete(sel) == Reply(sel, DefaultResult)

\* FileSelectorInput::cancel with FileSelectorComponent::handle_cancel
FileSelector_handle_cancel(sel) ==
    IF sel.selector_type = "NewFile" /\ IsSome(sel.filter)
        THEN Reply(refresh_filtered_items([sel EXCEPT !.filter = None]), consumed(TRUE))
    ELSE IF IsSome(sel.selected)
        THEN Reply([sel EXCEPT !.selected = None], consumed(TRUE))
    ELSE Reply(FileSelector_hide(sel), consumed(TRUE))

\* FileSelectorInput::toggle_filter
toggle_filter(sel) ==
    IF sel.selector_type = "PickFolder" THEN Reply(sel, not_consumed(FALSE))
    ELSE Reply([sel EXCEPT !.filter = Some(<<>>)], consumed(TRUE))

FileSelector_handle_action(sel, fsv, action) ==
    IF ~sel.visible THEN Reply(sel, DefaultResult)
    ELSE CASE action.tag = "Up" -> move_cursor_up(sel)
           [] action.tag = "Down" -> move_cursor_down(sel)
           [] action.tag \in {"Left", "Right"} -> Reply(sel, consumed(TRUE))
           [] action.tag = "Confirm" -> FileSelector_select(sel, fsv, FALSE)
           [] action.tag = "Select" -> FileSelector_select(sel, fsv, TRUE)
           [] action.tag = "Cancel" -> FileSelector_handle_cancel(sel)
           [] action.tag = "Backspace" -> FileSelector_handle_backspace(sel)
           [] action.tag = "Search" -> toggle_filter(sel)
           [] action.tag = "Delete" -> FileSelector_handle_delete(sel)
           [] action.tag = "Character" ->
                FileSelector_handle_character(sel, Unwrap(action.ch))
           [] OTHER -> Reply(sel, DefaultResult)

-----------------------------------------------------------------------------
(* editor/buffer.rs Buffer.  The text area holds one line of characters. *)

\* new_clipboard() gives the context or nothing; Buffer::new is modelled with
\* the context (an empty clipboard), and the specification that uses the
\* clipboard also starts without one
Buffer_new(file) ==
    [text |-> <<>>, file_path |-> file, modified |-> FALSE,
     cursor |-> 0, selection_start |-> None, yank |-> <<>>,
     clipboard_context |-> Some(<<>>)]

(* tui_textarea::TextArea, on the fields text, cursor, selection_start and
   yank of the buffer: one line of text, cursor counts the characters
   before it *)
is_selecting(b) == IsSome(b.selection_start)
start_selection(b) == [b EXCEPT !.selection_start = Some(b.cursor)]
cancel_selection(b) == [b EXCEPT !.selection_start = None]
yank_text(b) == b.yank
set_yank_text(b, t) == [b EXCEPT !.yank = t]

\* the selected range as <<first, last>> positions, or None when nothing
\* or an empty range is selected
selection_range(b) ==
    IF ~is_selecting(b) \/ Unwrap(b.selection_start) = b.cursor THEN None
    ELSE IF Unwrap(b.selection_start) < b.cursor
        THEN Some(<<Unwrap(b.selection_start), b.cursor>>)
        ELSE Some(<<b.cursor, Unwrap(b.selection_start)>>)

selected_text(b) ==
    LET range == Unwrap(selection_range(b))
    IN SubSeq(b.text, range[1] + 1, range[2])

\* delete_selection: <<the text area, whether something was deleted>>
delete_selection(b, should_yank) ==
    IF ~IsSome(selection_range(b)) THEN <<cancel_selection(b), FALSE>>
    ELSE LET range == Unwrap(selection_range(b))
         IN <<[b EXCEPT !.text = SubSeq(b.text, 1, range[1])
                                    \o SubSeq(b.text, range[2] + 1, Len(b.text)),
                        !.cursor = range[1],
                        !.selection_start = None,
                        !.yank = IF should_yank THEN selected_text(b) ELSE @],
              TRUE>>

cut(b) == delete_selection(b, TRUE)[1]

copy(b) ==
    IF ~IsSome(selection_range(b)) THEN cancel_selection(b)
    ELSE [cancel_selection(b) EXCEPT !.yank = selected_text(b)]

\* insert_str: <<the text area, whether the text changed>>
insert_str(b, t) ==
    LET d == delete_selection(b, FALSE)
    IN IF t = <<>> THEN d
       ELSE <<[d[1] EXCEPT !.text = SubSeq(d[1].text, 1, d[1].cursor) \o t
                                        \o SubSeq(d[1].text, d[1].cursor + 1,
                                                   Len(d[1].text)),
                           !.cursor = @ + Len(t)],
              TRUE>>

insert_char(b, c) == insert_str(b, <<c>>)[1]

\* delete_char: the selection, or the character before the cursor
delete_char(b) ==
    LET d == delete_selection(b, FALSE)
    IN IF d[2] THEN d
       ELSE IF b.cursor = 0 THEN <<d[1], FALSE>>
       ELSE <<[d[1] EXCEPT !.text = SubSeq(b.text, 1, b.cursor - 1)
                                        \o SubSeq(b.text, b.cursor + 1, Len(b.text)),
                           !.cursor = @ - 1],
              TRUE>>

\* delete_next_char: the selection, or the character after the cursor
delete_next_char(b) ==
    LET d == delete_selection(b, FALSE)
    IN IF d[2] THEN d
       ELSE IF b.cursor = Len(b.text) THEN <<d[1], FALSE>>
       ELSE <<[d[1] EXCEPT !.text = SubSeq(b.text, 1, b.cursor)
                                        \o SubSeq(b.text, b.cursor + 2, Len(b.text))],
              TRUE>>

\* move_cursor on the one line: Up and Down have no line to go to
moved_cursor(cursor, len, cursor_move) ==
    CASE cursor_move = "Back" -> IF cursor > 0 THEN cursor - 1 ELSE cursor
      [] cursor_move = "Forward" -> IF cursor < len THEN cursor + 1 ELSE cursor
      [] OTHER -> cursor

TextArea_move_cursor(b, cursor_move) ==
    [b EXCEPT !.cursor = moved_cursor(b.cursor, Len(b.text), cursor_move)]

\* Buffer::push_to_clipboard (Ok or Err) and get_from_clipboard
push_to_clipboard(b, t) ==
    IF ~IsSome(b.clipboard_context) THEN <<b, FALSE>>
    ELSE <<[b EXCEPT !.clipboard_context = Some(t)], TRUE>>
get_from_clipboard(b) == b.clipboard_context

current_directory(buffer, fsv) ==
    IF IsSome(buffer.file_path)
        THEN LET path == Unwrap(buffer.file_path)
             IN IF path \in DOMAIN fsv /\ is_dir(fsv, path) THEN path
                ELSE IF IsSome(parent(path)) THEN Unwrap(parent(path)) ELSE Root
        ELSE Cwd

\* text_area = TextArea::default()
clear_text(buffer) ==
    [buffer EXCEPT !.modified = FALSE, !.text = <<>>, !.cursor = 0,
                   !.selection_start = None, !.yank = <<>>]

change_path(buffer, path) ==
    [buffer EXCEPT !.file_path = Some(path), !.modified = FALSE]

-----------------------------------------------------------------------------
(* editor/search_box.rs SearchBoxComponent (visible or not) and help.rs
   HelpComponent (visible or not; its page never needs scrolling) *)

SearchBox_handle_action(search, action) ==
    IF ~search THEN Reply(search, not_consumed(FALSE))
    ELSE CASE action.tag \in {"Down", "Up"} -> Reply(search, consumed(FALSE))
           [] action.tag \in {"Left", "Right", "Character"} ->
                Reply(search, consumed(TRUE))
           [] action.tag = "Backspace" -> Reply(search, consumed(FALSE))
           [] action.tag \in {"Search", "Cancel"} -> Reply(FALSE, consumed(TRUE))
           [] OTHER -> Reply(search, consumed(FALSE))

Help_handle_action(help, action) ==
    IF action.tag = "ToggleHelp" THEN Reply(~help, consumed(TRUE))
    ELSE Reply(help, DefaultResult)

-----------------------------------------------------------------------------
(* editor/component.rs EditorComponent *)

EditorComponent_new(file) ==
    [kind |-> "Editor", buffer |-> Buffer_new(file),
     loading |-> FALSE, saving_file |-> FALSE, insert |-> FALSE,
     notification |-> None, help |-> FALSE, file_dialog |-> FileSelector_default,
     confirm_dialog |-> None, search |-> FALSE,
     config |-> FALSE, action_sender |-> FALSE, task_result_sender |-> FALSE]

load_file(ed) ==
    IF ~IsSome(ed.buffer.file_path) THEN Reply(ed, DefaultResult)
    ELSE Spawning(Reply([ed EXCEPT !.loading = TRUE], DefaultResult),
                  LoadTask(Unwrap(ed.buffer.file_path)))

save_file_at(ed, path, overwrite) ==
    Spawning(
        Reply([ed EXCEPT !.buffer = change_path(ed.buffer, path),
                         !.saving_file = TRUE,
                         !.file_dialog = FileSelector_hide(ed.file_dialog)],
              consumed(TRUE)),
        SaveTask(path, ed.buffer.text, overwrite))

handle_selector(ed, path_buf, selector_type) ==
    CASE selector_type = "PickFolder" -> save_file_at(ed, path_buf, TRUE)
      [] selector_type = "NewFile" -> save_file_at(ed, path_buf, FALSE)
      [] OTHER ->
            [load_file([ed EXCEPT !.buffer = change_path(ed.buffer, path_buf)])
                EXCEPT !.res = consumed(TRUE)]

open_file_dialog(ed, fsv, selector_type) ==
    Reply([ed EXCEPT !.file_dialog =
                FileSelector_show(ed.file_dialog, fsv,
                                  current_directory(ed.buffer, fsv), selector_type)],
          consumed(TRUE))

\* without the test of modified
handle_save_file_unguarded(ed, fsv) ==
    IF ~IsSome(ed.buffer.file_path) THEN open_file_dialog(ed, fsv, "NewFile")
    ELSE save_file_at(ed, Unwrap(ed.buffer.file_path), TRUE)

handle_save_file(ed, fsv) ==
    IF ~ed.buffer.modified /\ IsSome(ed.buffer.file_path)
        THEN Reply(ed, not_consumed(FALSE))
    ELSE IF ~IsSome(ed.buffer.file_path) THEN open_file_dialog(ed, fsv, "NewFile")
    ELSE save_file_at(ed, Unwrap(ed.buffer.file_path), TRUE)

handle_save_to(ed, fsv) == open_file_dialog(ed, fsv, "NewFile")

stop_selection(ed) == [ed EXCEPT !.buffer = cancel_selection(@)]

Editor_start_selection(ed) ==
    IF is_selecting(ed.buffer) THEN ed ELSE [ed EXCEPT !.buffer = start_selection(@)]

Editor_move_cursor(ed, cursor_move) ==
    Reply([ed EXCEPT !.buffer = TextArea_move_cursor(@, cursor_move)], consumed(TRUE))

Editor_delete(ed) ==
    LET d == delete_next_char(ed.buffer)
    IN IF d[2] THEN Reply([ed EXCEPT !.buffer = d[1]], consumed(TRUE))
       ELSE Reply([ed EXCEPT !.buffer = d[1]], not_consumed(FALSE))

cut_selection(ed) ==
    LET b == cancel_selection(cut(ed.buffer))
        yanked == yank_text(b)
        pushed == push_to_clipboard(b, yanked)
    IN IF yanked = <<>> THEN Reply([ed EXCEPT !.buffer = b], consumed(TRUE))
       ELSE Reply([ed EXCEPT !.buffer = pushed[1],
                             !.notification = IF pushed[2] THEN notify_text("Cut")
                                              ELSE notify_error("error")],
                  consumed(TRUE))

\* a selection is replaced by the character, the yanked text kept
add_char(ed, c) ==
    LET b == IF is_selecting(ed.buffer)
                THEN set_yank_text(cancel_selection(cut(ed.buffer)),
                                   yank_text(ed.buffer))
                ELSE ed.buffer
    IN Reply([ed EXCEPT !.buffer = [insert_char(b, c) EXCEPT !.modified = TRUE]],
             consumed(TRUE))

Editor_backspace(ed) ==
    Reply([ed EXCEPT !.buffer = [delete_char(@)[1] EXCEPT !.modified = TRUE]],
          consumed(TRUE))

\* the contents inserted into the text area as it is
load_file_contents_without_clear(ed, contents) ==
    Reply([ed EXCEPT !.loading = FALSE,
                     !.buffer = cancel_selection(insert_str(@, contents)[1])],
          consumed(TRUE))

load_file_contents(ed, contents) ==
    Reply([ed EXCEPT !.loading = FALSE,
                     !.buffer = cancel_selection(
                                    insert_str(clear_text(ed.buffer), contents)[1])],
          consumed(TRUE))

copy_selection(ed) ==
    LET b == copy(ed.buffer)
        yanked == yank_text(b)
        pushed == push_to_clipboard(b, yanked)
    IN IF yanked = <<>> THEN Reply([ed EXCEPT !.buffer = b], consumed(FALSE))
       ELSE Reply([ed EXCEPT !.buffer = pushed[1],
                             !.notification = IF pushed[2] THEN notify_text("Copied")
                                              ELSE notify_error("error")],
                  consumed(TRUE))

paste_text(ed, t) ==
    LET i == insert_str(ed.buffer, t)
    IN Reply([ed EXCEPT !.buffer = i[1]], consumed(i[2]))

paste_text_from_clipboard(ed) ==
    IF ~IsSome(get_from_clipboard(ed.buffer)) THEN Reply(ed, consumed(FALSE))
    ELSE paste_text(ed, Unwrap(get_from_clipboard(ed.buffer)))

show_confirm_overwrite(ed) ==
    Reply([ed EXCEPT !.confirm_dialog = ConfirmDialog_show(Act("Save"))],
          consumed(TRUE))

\* Saved handled without the notification
handle_file_saved_without_notice(ed, fsv, result) ==
    IF ~ed.saving_file THEN Reply(ed, DefaultResult)
    ELSE LET idle == [ed EXCEPT !.saving_file = FALSE]
         IN CASE result.tag = "Saved" ->
                    Reply([idle EXCEPT !.buffer = change_path(ed.buffer, Unwrap(result.path))],
                          consumed(TRUE))
              [] result.tag = "Error" ->
                    Reply([idle EXCEPT !.notification = notify_error("error")],
                          consumed(TRUE))
              [] result.tag = "MissingName" -> open_file_dialog(idle, fsv, "NewFile")
              [] OTHER -> show_confirm_overwrite(idle)

handle_file_saved(ed, fsv, result) ==
    IF ~ed.saving_file THEN Reply(ed, DefaultResult)
    ELSE LET idle == [ed EXCEPT !.saving_file = FALSE]
         IN CASE result.tag = "Saved" ->
                    Reply([idle EXCEPT
                              !.notification = notify_text("File saved"),
                              !.buffer = change_path(ed.buffer, Unwrap(result.path))],
                          consumed(TRUE))
              [] result.tag = "Error" ->
                    Reply([idle EXCEPT !.notification = notify_error("error")],
                          consumed(TRUE))
              [] result.tag = "MissingName" -> open_file_dialog(idle, fsv, "NewFile")
              [] OTHER -> show_confirm_overwrite(idle)

child_handle_action(ed, fsv, action) ==
    LET n == Notification_handle_action(ed.notification, action)
        c == ConfirmDialog_handle_action(ed.confirm_dialog, action)
        f == FileSelector_handle_action(ed.file_dialog, fsv, action)
        s == SearchBox_handle_action(ed.search, action)
        h == Help_handle_action(ed.help, action)
    IN IF is_consumed(n.res) THEN Lift(n, [ed EXCEPT !.notification = n.st])
       ELSE IF is_consumed(c.res) THEN Lift(c, [ed EXCEPT !.confirm_dialog = c.st])
       ELSE IF is_consumed(f.res) THEN Lift(f, [ed EXCEPT !.file_dialog = f.st])
       ELSE IF is_consumed(s.res)
            THEN Lift(s, [ed EXCEPT !.file_dialog = f.st, !.search = s.st])
       ELSE IF is_consumed(h.res)
            THEN Lift(h, [ed EXCEPT !.file_dialog = f.st, !.help = h.st])
       ELSE Reply([ed EXCEPT !.file_dialog = f.st], not_consumed(FALSE))

Editor_handle_action(ed0, fsv, action) ==
    LET child == child_handle_action(ed0, fsv, action)
        ed == child.st
    IN IF is_consumed(child.res) THEN child
       ELSE CASE action.tag = "Tick" ->
                    LET t == handle_tick_action(ed.notification)
                    IN Lift(t, [ed EXCEPT !.notification = t.st])
              [] action.tag = "Character" -> add_char(ed, Unwrap(action.ch))
              [] action.tag = "Backspace" -> Editor_backspace(ed)
              [] action.tag = "Delete" -> Editor_delete(ed)
              [] action.tag = "Insert" -> Reply([ed EXCEPT !.insert = TRUE], consumed(TRUE))
              [] action.tag = "Left" -> Editor_move_cursor(stop_selection(ed), "Back")
              [] action.tag = "SelectLeft" ->
                    Editor_move_cursor(Editor_start_selection(ed), "Back")
              [] action.tag = "Right" -> Editor_move_cursor(stop_selection(ed), "Forward")
              [] action.tag = "SelectRight" ->
                    Editor_move_cursor(Editor_start_selection(ed), "Forward")
              [] action.tag = "Up" -> Editor_move_cursor(stop_selection(ed), "Up")
              [] action.tag = "Down" -> Editor_move_cursor(stop_selection(ed), "Down")
              [] action.tag = "Cancel" ->
                    IF is_selecting(ed.buffer)
                        THEN Reply(stop_selection(ed), consumed(TRUE))
                    ELSE IF ed.insert
                        THEN Reply([ed EXCEPT !.insert = FALSE], consumed(TRUE))
                    ELSE Reply(ed, DefaultResult)
              [] action.tag = "Search" -> Reply([ed EXCEPT !.search = ~@], consumed(TRUE))
              [] action.tag = "Copy" -> copy_selection(ed)
              [] action.tag = "Paste" -> paste_text_from_clipboard(ed)
              [] action.tag = "PasteText" -> paste_text(ed, action.ch)
              [] action.tag = "Cut" -> cut_selection(ed)
              [] action.tag = "Save" -> handle_save_file(ed, fsv)
              [] action.tag = "SaveTo" -> handle_save_to(ed, fsv)
              [] action.tag = "Return" ->
                    SendingAsync(Reply(ed, DefaultResult), Navigate(None))
              [] action.tag = "OpenFile" -> open_file_dialog(ed, fsv, "PickFile")
              [] OTHER -> Reply(ed, DefaultResult)

Editor_handle_async_action(ed, fsv, action) ==
    CASE action.tag = "LoadFileContents" -> load_file_contents(ed, action.text)
      [] action.tag = "SavedFile" -> handle_file_saved(ed, fsv, action.result)
      [] action.tag = "Error" ->
            Reply([ed EXCEPT !.notification = notify_error("error")], consumed(TRUE))
      [] action.tag = "SelectPath" ->
            handle_selector(ed, action.path, action.selector_type)
      [] OTHER -> Reply(ed, DefaultResult)

Editor_init(ed) == load_file(ed)

-----------------------------------------------------------------------------
(* file_selector/file_history.rs FileHistoryComponent.  The history file
   lists every file path of the model; load_files keeps those that are
   files when the list is opened. *)

FileHistory_default == [opened |-> FALSE, files |-> <<>>, selected |-> None]

is_file(fsv, path) == fsv[path].kind = "file"

load_files(fh, fsv) ==
    IF fh.files # <<>> THEN fh
    ELSE LET IsFile(path) == is_file(fsv, path)
         IN [fh EXCEPT !.files = SelectSeq(SeqOfSet(FilePaths), IsFile)]

FileHistory_show(fh, fsv) == load_files([fh EXCEPT !.opened = TRUE], fsv)
FileHistory_hide(fh) == [fh EXCEPT !.files = <<>>, !.opened = FALSE]

FileHistory_move_down(fh) ==
    IF fh.files = <<>> THEN Reply(fh, consumed(FALSE))
    ELSE IF IsSome(fh.selected)
        THEN IF Unwrap(fh.selected) = Len(fh.files) - 1 THEN Reply(fh, consumed(FALSE))
             ELSE Reply([fh EXCEPT !.selected = Some(Unwrap(@) + 1)], consumed(TRUE))
    ELSE Reply([fh EXCEPT !.selected = Some(0)], consumed(TRUE))

FileHistory_move_up(fh) ==
    IF fh.files = <<>> THEN Reply(fh, consumed(FALSE))
    ELSE IF IsSome(fh.selected)
        THEN IF Unwrap(fh.selected) = 0 THEN Reply(fh, consumed(FALSE))
             ELSE Reply([fh EXCEPT !.selected = Some(Unwrap(@) - 1)], consumed(TRUE))
    ELSE Reply([fh EXCEPT !.selected = Some(Len(fh.files) - 1)], consumed(TRUE))

\* self.files[selected] panics when the remembered index is past the list
FileHistory_select_panics(fh) ==
    fh.opened /\ IsSome(fh.selected) /\ Unwrap(fh.selected) >= Len(fh.files)

FileHistory_select(fh) ==
    IF ~IsSome(fh.selected) THEN Reply(fh, not_consumed(FALSE))
    ELSE SendingAsync(Reply(FileHistory_hide(fh), consumed(TRUE)),
                      SelectPath(fh.files[Unwrap(fh.selected) + 1], "PickFile"))

FileHistory_cancel(fh) ==
    IF IsSome(fh.selected) THEN Reply([fh EXCEPT !.selected = None], consumed(TRUE))
    ELSE Reply(FileHistory_hide(fh), consumed(TRUE))

\* Cancel handled without looking at showing()
FileHistory_handle_action_cancelling_when_hidden(fh, action) ==
    IF action.tag = "Cancel" THEN FileHistory_cancel(fh)
    ELSE IF ~fh.opened THEN Reply(fh, not_consumed(FALSE))
    ELSE CASE action.tag = "Up" -> FileHistory_move_up(fh)
           [] action.tag = "Down" -> FileHistory_move_down(fh)
           [] action.tag = "Confirm" -> FileHistory_select(fh)
           [] OTHER -> Reply(fh, consumed(FALSE))

FileHistory_handle_action(fh, action) ==
    IF ~fh.opened THEN Reply(fh, not_consumed(FALSE))
    ELSE CASE action.tag = "Up" -> FileHistory_move_up(fh)
           [] action.tag = "Down" -> FileHistory_move_down(fh)
           [] action.tag = "Confirm" -> FileHistory_select(fh)
           [] action.tag = "Cancel" -> FileHistory_cancel(fh)
           [] OTHER -> Reply(fh, consumed(FALSE))

-----------------------------------------------------------------------------
(* home.rs HomeComponent *)

HomeOptions == <<"NewFile", "OpenFile", "FileHistory", "Config", "Quit">>
HomeOptions_COUNT == Len(HomeOptions)

\* get_config_file_dir(): the configuration file is one of the model's files
ConfigPath == FilePath(<<"a">>)

HomeComponent_new ==
    [kind |-> "Home", list_state |-> None,
     file_selector_component |-> FileSelector_default,
     file_history_component |-> FileHistory_default,
     config |-> FALSE, action_sender |-> FALSE, task_result_sender |-> FALSE]

navigate_new_file(home) ==
    SendingAsync(Reply(home, consumed(TRUE)), Navigate(Some(Editor)))
navigate_to_config(home) ==
    SendingAsync(Reply(home, consumed(TRUE)), Navigate(Some(OpenedEditor(ConfigPath))))
exit_program(home) == Sending(Reply(home, consumed(TRUE)), Act("Quit"))
open_file_picker(home, fsv) ==
    Reply([home EXCEPT !.file_selector_component =
                FileSelector_show(home.file_selector_component, fsv, Cwd, "PickFile")],
          consumed(TRUE))
open_file_history(home, fsv) ==
    Reply([home EXCEPT !.file_history_component =
                FileHistory_show(home.file_history_component, fsv)],
          consumed(TRUE))

Home_select_option(home, fsv, option) ==
    CASE option = "NewFile" -> navigate_new_file(home)
      [] option = "OpenFile" -> open_file_picker(home, fsv)
      [] option = "FileHistory" -> open_file_history(home, fsv)
      [] option = "Quit" -> exit_program(home)
      [] OTHER -> navigate_to_config(home)

Home_handle_action(home0, fsv, action) ==
    LET f == FileSelector_handle_action(home0.file_selector_component, fsv, action)
        home1 == [home0 EXCEPT !.file_selector_component = f.st]
        h == FileHistory_handle_action(home1.file_history_component, action)
        home == [home1 EXCEPT !.file_history_component = h.st]
    IN IF is_consumed(f.res) THEN Lift(f, home1)
       ELSE IF is_consumed(h.res) THEN Lift(h, home)
       ELSE CASE action.tag = "Up" ->
                    IF IsSome(home.list_state)
                        THEN IF Unwrap(home.list_state) > 0
                                THEN Reply([home EXCEPT !.list_state = Some(Unwrap(@) - 1)],
                                           consumed(TRUE))
                                ELSE Reply(home, DefaultResult)
                        ELSE Reply([home EXCEPT !.list_state = Some(HomeOptions_COUNT - 1)],
                                   consumed(TRUE))
              [] action.tag = "Down" ->
                    IF IsSome(home.list_state)
                        THEN IF Unwrap(home.list_state) + 1 < HomeOptions_COUNT
                                THEN Reply([home EXCEPT !.list_state = Some(Unwrap(@) + 1)],
                                           consumed(TRUE))
                                ELSE Reply(home, DefaultResult)
                        ELSE Reply([home EXCEPT !.list_state = Some(0)], consumed(TRUE))
              [] action.tag = "Confirm" ->
                    IF IsSome(home.list_state)
                        THEN Home_select_option(home, fsv,
                                                HomeOptions[Unwrap(home.list_state) + 1])
                        ELSE Reply(home, DefaultResult)
              [] action.tag = "Cancel" ->
                    IF IsSome(home.list_state)
                        THEN Reply([home EXCEPT !.list_state = None], consumed(TRUE))
                        ELSE Reply(home, DefaultResult)
              [] action.tag = "NewFile" -> navigate_new_file(home)
              [] action.tag = "OpenFile" -> open_file_picker(home, fsv)
              [] action.tag = "FileHistory" -> open_file_history(home, fsv)
              [] action.tag = "Config" -> navigate_to_config(home)
              [] OTHER -> Reply(home, DefaultResult)

Home_handle_async_action(home, action) ==
    IF action.tag = "SelectPath"
        THEN SendingAsync(Reply(home, consumed(FALSE)),
                          Navigate(Some(OpenedEditor(action.path))))
        ELSE Reply(home, DefaultResult)

-----------------------------------------------------------------------------
(* navigator.rs NavigatorComponent with config/effects_config.rs EffectRunner.
   running is the effect runner's flag.  fresh is history: the last call on
   the navigator built a component; calls is history: the calls that call
   made on the old and the new component, in their order. *)

AppComponents == {HomeScreen, Editor, FileDialog, Dialog} \cup {OpenedEditor(p) : p \in Paths}

\* register_config, register_action_sender, register_async_action_sender of
\* the Editor and of Home: the component holds the configuration and the
\* senders from then on (task_result_sender is Home's async_action_sender)
Component_register_config(comp) == [comp EXCEPT !.config = TRUE]
Component_register_action_sender(comp) == [comp EXCEPT !.action_sender = TRUE]
Component_register_async_action_sender(comp) == [comp EXCEPT !.task_result_sender = TRUE]

\* Component::exit, which no screen overrides
Component_exit(comp) == comp

Component_init(comp) ==
    IF comp.kind = "Editor" THEN Editor_init(comp) ELSE Reply(comp, DefaultResult)

Component_handle_action(comp, fsv, action) ==
    IF comp.kind = "Editor" THEN Editor_handle_action(comp, fsv, action)
    ELSE Home_handle_action(comp, fsv, action)

Component_handle_async_action(comp, fsv, action) ==
    IF comp.kind = "Editor" THEN Editor_handle_async_action(comp, fsv, action)
    ELSE Home_handle_async_action(comp, action)

\* the calls that abort the process: select() on the move-up entry of "/",
\* and the history list indexed past its end
Component_panics(comp, action) ==
    IF comp.kind = "Editor"
        THEN /\ ~is_consumed(Notification_handle_action(comp.notification, action).res)
             /\ ~ConfirmDialog_visible(comp.confirm_dialog)
             /\ comp.file_dialog.visible
             /\ action.tag \in {"Confirm", "Select"}
             /\ FileSelector_select_panics(comp.file_dialog)
        ELSE \/ /\ comp.file_selector_component.visible
                /\ action.tag \in {"Confirm", "Select"}
                /\ FileSelector_select_panics(comp.file_selector_component)
             \/ /\ ~comp.file_selector_component.visible
                /\ action.tag = "Confirm"
                /\ FileHistory_select_panics(comp.file_history_component)

map_component_keeping_identity(app_component) ==
    CASE app_component.tag = "OpenedEditor" ->
            [app_comp |-> Editor, comp |-> EditorComponent_new(app_component.path)]
      [] app_component.tag = "Editor" ->
            [app_comp |-> app_component, comp |-> EditorComponent_new(None)]
      [] OTHER -> [app_comp |-> app_component, comp |-> HomeComponent_new]

map_component(app_component) ==
    CASE app_component.tag = "OpenedEditor" ->
            [app_comp |-> Editor, comp |-> EditorComponent_new(app_component.path)]
      [] app_component.tag = "Editor" ->
            [app_comp |-> app_component, comp |-> EditorComponent_new(None)]
      [] OTHER -> [app_comp |-> HomeScreen, comp |-> HomeComponent_new]

new_with_starting_component(app_component) ==
    LET m == map_component(app_component)
    IN [current_component |-> m.app_comp, previous_component |-> None,
        component |-> m.comp, transitioning |-> None, running |-> FALSE,
        fresh |-> FALSE, calls |-> <<>>]

\* NavigatorComponent::register_config, register_action_sender and
\* register_async_action_sender hand each to the active component
Navigator_register_config(self) ==
    [self EXCEPT !.component = Component_register_config(@)]
Navigator_register_action_sender(self) ==
    [self EXCEPT !.component = Component_register_action_sender(@)]
Navigator_register_async_action_sender(self) ==
    [self EXCEPT !.component = Component_register_async_action_sender(@)]

\* EffectRunner::add_effect
add_effect(r) == SendingAsync(Lift(r, [r.st EXCEPT !.running = TRUE]), StartAnimation)

start_leave_screen_transition(self, app_component) ==
    Lift(add_effect(Reply(self, DefaultResult)),
         [self EXCEPT !.running = TRUE, !.transitioning = Some(app_component)])

navigate_unconditionally(self, app_component) ==
    start_leave_screen_transition(self, app_component)

navigate(self, app_component) ==
    IF self.current_component # app_component
        THEN start_leave_screen_transition(self, app_component)
        ELSE Reply(self, DefaultResult)

Returned(r, ret) ==
    [st |-> r.st, ret |-> ret, acts |-> r.acts, asyncs |-> r.asyncs, spawns |-> r.spawns]

return_last_component_always(self) ==
    IF IsSome(self.previous_component)
        THEN Returned(start_leave_screen_transition(
                          [self EXCEPT !.previous_component = None],
                          Unwrap(self.previous_component)), TRUE)
    ELSE Returned(start_leave_screen_transition(self, HomeScreen), TRUE)

return_last_component(self) ==
    IF IsSome(self.previous_component)
        THEN Returned(start_leave_screen_transition(
                          [self EXCEPT !.previous_component = None],
                          Unwrap(self.previous_component)), TRUE)
    ELSE IF self.current_component # HomeScreen
        THEN Returned(start_leave_screen_transition(self, HomeScreen), TRUE)
    ELSE Returned(Reply(self, DefaultResult), FALSE)

\* history: a call the navigator made on a component during a switch
Call(name, on, comp) == [call |-> name, on |-> on, kind |-> comp.kind]

start_enter_screen_transition_init_first(self) ==
    IF ~IsSome(self.transitioning) THEN Reply(self, DefaultResult)
    ELSE LET old == Component_exit(self.component)
             m == map_component(Unwrap(self.transitioning))
             i0 == Component_init(m.comp)
             c1 == Component_register_config(i0.st)
             c2 == Component_register_action_sender(c1)
             c3 == Component_register_async_action_sender(c2)
             i == [i0 EXCEPT !.st = c3]
         IN [st |-> [self EXCEPT !.transitioning = None, !.running = TRUE,
                                !.current_component = m.app_comp,
                                !.component = i.st, !.fresh = TRUE,
                                !.calls = <<Call("exit", "old", old),
                                            Call("init", "new", i0.st),
                                            Call("register_config", "new", c1),
                                            Call("register_action_sender", "new", c2),
                                            Call("register_async_action_sender", "new", c3)>>],
             res |-> DefaultResult, acts |-> i.acts,
             asyncs |-> <<StartAnimation>> \o i.asyncs, spawns |-> i.spawns]

start_enter_screen_transition(self) ==
    IF ~IsSome(self.transitioning) THEN Reply(self, DefaultResult)
    ELSE LET old == Component_exit(self.component)
             m == map_component(Unwrap(self.transitioning))
             c1 == Component_register_config(m.comp)
             c2 == Component_register_action_sender(c1)
             c3 == Component_register_async_action_sender(c2)
             i == Component_init(c3)
         IN [st |-> [self EXCEPT !.transitioning = None, !.running = TRUE,
                                !.current_component = m.app_comp,
                                !.component = i.st, !.fresh = TRUE,
                                !.calls = <<Call("exit", "old", old),
                                            Call("register_config", "new", c1),
                                            Call("register_action_sender", "new", c2),
                                            Call("register_async_action_sender", "new", c3),
                                            Call("init", "new", i.st)>>],
             res |-> DefaultResult, acts |-> i.acts,
             asyncs |-> <<StartAnimation>> \o i.asyncs, spawns |-> i.spawns]

Navigator_handle_action_blocked_while_transitioning(self, fsv, action) ==
    IF IsSome(self.transitioning) THEN Reply(self, DefaultResult)
    ELSE LET c == Component_handle_action(self.component, fsv, action)
         IN Lift(c, [self EXCEPT !.component = c.st])

Navigator_handle_action(self, fsv, action) ==
    LET c == Component_handle_action(self.component, fsv, action)
    IN Lift(c, [self EXCEPT !.component = c.st])

Navigator_handle_async_action_reporting_not_consumed(self, fsv, action) ==
    IF action.tag = "Navigate"
        THEN IF IsSome(action.screen)
                THEN [navigate(self, Unwrap(action.screen)) EXCEPT !.res = consumed(TRUE)]
             ELSE LET r == return_last_component(self)
                  IN IF ~r.ret
                        THEN Sending(Reply(r.st, not_consumed(FALSE)), Act("Quit"))
                        ELSE [Reply(r.st, consumed(TRUE)) EXCEPT !.asyncs = r.asyncs]
    ELSE LET c == Component_handle_async_action(self.component, fsv, action)
         IN Lift(c, [self EXCEPT !.component = c.st])

Navigator_handle_async_action(self, fsv, action) ==
    IF action.tag = "Navigate"
        THEN IF IsSome(action.screen)
                THEN [navigate(self, Unwrap(action.screen)) EXCEPT !.res = consumed(TRUE)]
             ELSE LET r == return_last_component(self)
                  IN IF ~r.ret
                        THEN Sending(Reply(r.st, consumed(FALSE)), Act("Quit"))
                        ELSE [Reply(r.st, consumed(TRUE)) EXCEPT !.asyncs = r.asyncs]
    ELSE LET c == Component_handle_async_action(self.component, fsv, action)
         IN Lift(c, [self EXCEPT !.component = c.st])

\* App::run registers the configuration and the two senders on the navigator
Registered(self) ==
    Navigator_register_async_action_sender(
        Navigator_register_action_sender(Navigator_register_config(self)))

Navigator_init(self) ==
    LET i == Component_init(self.component)
    IN [st |-> [self EXCEPT !.running = TRUE, !.component = i.st],
        res |-> DefaultResult, acts |-> i.acts,
        asyncs |-> <<StartAnimation>> \o i.asyncs, spawns |-> i.spawns]

\* NavigatorComponent::render with EffectRunner::process; `finished` is
\* whether the running effect has played to its end by this frame
Navigator_render(self, finished) ==
    IF self.running /\ finished
        THEN LET e == start_enter_screen_transition([self EXCEPT !.running = FALSE])
             IN [e EXCEPT !.asyncs = <<StopAnimation>> \o @]
        ELSE Reply(self, DefaultResult)

-----------------------------------------------------------------------------
(* preview_component.rs PreviewComponent and util::read_dir_limited.  task
   is the path the running preview task reads, or None when the task has
   ended or was aborted. *)

Newline == "n"
RECURSIVE Newlines(_)
Newlines(k) == IF k = 0 THEN <<>> ELSE <<Newline>> \o Newlines(k - 1)

\* Ok(text) or Err: the file's one line and a line break for every further
\* line asked for, without the last break
read_dir_limited(fsv, path, lines_limit, io) ==
    IF lines_limit = 0 \/ ~exists(fsv, path) \/ is_dir(fsv, path) THEN None
    ELSE IF io = "read_fails" THEN None
    ELSE Some(fsv[path].data \o Newlines(lines_limit - 1))

PreviewComponent_default ==
    [path_buf |-> Root, contents |-> None, task |-> None, lines |-> 0, visible |-> TRUE]

change_dir(self, dir) ==
    [self EXCEPT !.path_buf = IF IsSome(dir) THEN Unwrap(dir) ELSE @,
                 !.contents = None,
                 !.task = None]

read_lines(self) ==
    IF IsSome(self.contents) THEN self
    ELSE [self EXCEPT !.task = Some(self.path_buf)]

reload(self) == read_lines([self EXCEPT !.contents = None])

Preview_handle_action(self, action) ==
    CASE action.tag = "TogglePreview" ->
            Reply([self EXCEPT !.visible = ~@], consumed(TRUE))
      [] action.tag = "ReloadPreview" -> Reply(reload(self), consumed(TRUE))
      [] action.tag = "Resize" -> Reply(reload(self), not_consumed(TRUE))
      [] OTHER -> Reply(self, DefaultResult)

Preview_handle_async_action(self, action) ==
    IF action.tag = "PreviewContents"
        THEN Reply([self EXCEPT !.contents = action.contents], consumed(TRUE))
        ELSE Reply(self, DefaultResult)

\* render: the pane's height gives the line limit, then read_lines
Preview_render(self, lines) == read_lines([self EXCEPT !.lines = lines])

\* file_selector/mod.rs render_preview_if_able
render_preview_if_able(preview, has_selected, lines) ==
    IF preview.visible /\ has_selected THEN Preview_render(preview, lines) ELSE preview

(* file_history.rs FileHistoryComponent with the preview pane it owns.
   handle_action: the pane is offered the Action first; reply is the
   component's answer and preview the pane after the call.  update_preview
   changes the pane's path when the cursor moved. *)
FileHistory_handle_action_with_preview(fh, preview, action) ==
    IF ~fh.opened THEN [reply |-> Reply(fh, not_consumed(FALSE)), preview |-> preview]
    ELSE LET prev == Preview_handle_action(preview, action)
             r == FileHistory_handle_action(fh, action)
             moved == action.tag \in {"Up", "Down"} /\ r.res = consumed(TRUE)
         IN IF is_consumed(prev.res)
                THEN [reply |-> Reply(fh, prev.res), preview |-> prev.st]
                ELSE [reply |-> r,
                      preview |-> IF moved
                                    THEN change_dir(prev.st,
                                            Some(r.st.files[Unwrap(r.st.selected) + 1]))
                                    ELSE prev.st]

FileHistory_handle_async_action(fh, preview, action) ==
    IF ~fh.opened THEN Reply(preview, not_consumed(FALSE))
    ELSE Preview_handle_async_action(preview, action)

FileHistory_render(fh, preview, lines) ==
    IF ~fh.opened \/ fh.files = <<>> THEN preview
    ELSE render_preview_if_able(preview, IsSome(fh.selected), lines)

-----------------------------------------------------------------------------
(* Initial values *)

NoArg == [tag |-> "none"]

Last(op, arg, res, ret, req, built, prev) ==
    [op |-> op, arg |-> arg, res |-> res, ret |-> ret, req |-> req,
     built |-> built, prev |-> prev]

NoCall == Last("none", NoArg, DefaultResult, FALSE, None, FALSE, "none")

\* the directories exist; a file path holds a file or nothing
Filesystems ==
    {f \in [Paths -> FileVals] : f[Root] = Dir /\ f[Cwd] = Dir}
InitialFilesystems ==
    {f \in Filesystems : \A q \in FilePaths : f[q] # Dir}
WorkingFilesystem ==
    [q \in Paths |-> IF q \in {Root, Cwd} THEN Dir
                      ELSE IF q = ConfigPath THEN File(<<"a">>) ELSE NoFile]

NoWrite ==
    [called |-> FALSE, path |-> Root, lines |-> <<>>, overwrite |-> FALSE,
     io |-> "ok", before |-> WorkingFilesystem, result |-> SaveError]

\* events counts the events handled, up to MaxEvents
App_create ==
    [pc |-> "event", should_quit |-> FALSE, should_rerender |-> TRUE, events |-> 0]

\* history: the navigator before this call, with the flag of the previous call cleared
Cleared(self) == [self EXCEPT !.fresh = FALSE, !.calls = <<>>]

-----------------------------------------------------------------------------
(* SpecWrite: write_file applied to every filesystem, path, content, flag and
   I/O outcome of the model *)

InitWrite ==
    /\ fs \in Filesystems
    /\ wf = NoWrite
    /\ tasks = <<>> /\ actionq = <<>> /\ asyncq = <<>>
    /\ app = App_create
    /\ nav = new_with_starting_component(HomeScreen)
    /\ last = NoCall
    /\ pv = PreviewComponent_default

Write(path, lines, overwrite, io) ==
    LET w == write_file(fs, path, lines, overwrite, io)
    IN /\ fs' = w.fs
       /\ wf' = [called |-> TRUE, path |-> path, lines |-> lines,
                 overwrite |-> overwrite, io |-> io, before |-> fs,
                 result |-> w.result]
       /\ UNCHANGED <<tasks, actionq, asyncq, app, nav, last, pv>>

NextWrite ==
    \E path \in Paths, lines \in Texts, overwrite \in BOOLEAN, io \in WriteIo :
        Write(path, lines, overwrite, io)

SpecWrite == InitWrite /\ [][NextWrite]_vars

\* C2: write_file with overwrite = false on a path that exists answers
\* ConfirmOverwrite and leaves the whole filesystem as it was
C2_NoSilentOverwrite ==
    (wf.called /\ ~wf.overwrite /\ exists(wf.before, wf.path))
        => (wf.result = ConfirmOverwrite /\ fs = wf.before)

C2_Witness ==
    /\ wf.called /\ ~wf.overwrite /\ wf.io = "ok"
    /\ wf.before[wf.path].kind = "file"
    /\ wf.lines # wf.before[wf.path].data
    /\ wf.result = ConfirmOverwrite

-----------------------------------------------------------------------------
(* SpecNav: the calls of NavigatorComponent, made one at a time on a
   navigator built for any starting screen and initialised as App::run
   does.  The receivers are emptied before each call, so the queues and the
   task list hold what the last call sent and spawned; last records the
   call, with req the screen of the latest navigate request that only
   renders have followed and that left no other transition pending, and
   built whether a component was built since the first of the requests
   for that screen. *)

InitNav ==
    /\ fs = WorkingFilesystem
    /\ \E start \in AppComponents :
          LET i == Navigator_init(Registered(new_with_starting_component(start)))
          IN /\ nav = i.st
             /\ actionq = i.acts /\ asyncq = i.asyncs /\ tasks = i.spawns
    /\ last = NoCall
    /\ app = App_create
    /\ wf = NoWrite
    /\ pv = PreviewComponent_default

Called(r, op, arg, ret, req) ==
    /\ nav' = r.st
    /\ actionq' = r.acts /\ asyncq' = r.asyncs /\ tasks' = r.spawns
    /\ last' = Last(op, arg, r.res, ret, req,
                    \/ r.st.fresh
                    \/ last.built /\ (op = "render" \/ (op = "navigate" /\ last.req = Some(arg))),
                    last.op)
    /\ UNCHANGED <<fs, app, wf, pv>>

\* req after a navigate request for x: x, unless the request left a
\* transition to another screen pending
Requested(r, x) ==
    IF r.st.transitioning \in {None, Some(x)} THEN Some(x) ELSE None

NavNavigate(app_component) ==
    LET r == navigate(Cleared(nav), app_component)
    IN Called(r, "navigate", app_component, FALSE, Requested(r, app_component))

NavReturnLast ==
    LET r == return_last_component(Cleared(nav))
    IN Called([Reply(r.st, DefaultResult) EXCEPT !.asyncs = r.asyncs],
              "return_last_component", NoArg, r.ret, None)

NavigateRequests == {Navigate(None)} \cup {Navigate(Some(c)) : c \in AppComponents}

NavHandleAsyncAction(action) ==
    LET r == Navigator_handle_async_action(Cleared(nav), fs, action)
    IN Called(r, "handle_async_action", action, FALSE,
              IF IsSome(action.screen) THEN Requested(r, Unwrap(action.screen))
              ELSE None)

NavRender(finished) ==
    Called(Navigator_render(Cleared(nav), finished), "render", NoArg, FALSE, last.req)

NextNav ==
    \/ \E c \in AppComponents : NavNavigate(c)
    \/ NavReturnLast
    \/ \E a \in NavigateRequests : NavHandleAsyncAction(a)
    \/ \E finished \in BOOLEAN : NavRender(finished)

SpecNav == InitNav /\ [][NextNav]_vars

\* The navigator's own fields, without the history flag
NavigatorState(self) == [self EXCEPT !.fresh = FALSE, !.calls = <<>>]

\* navigate(X) made when the latest navigate request was for the same X
\* (leaving no transition to another screen pending), only renders came
\* since, and that navigation has completed
SecondNavigate(x) ==
    /\ last'.op = "navigate" /\ last'.arg = x
    /\ last.op \in {"navigate", "render"}
    /\ last.req = Some(x)
    /\ nav.transitioning = None

\* C7 as claimed: for every screen identity the second navigate(X) is a no-op
C7_SecondNavigateNoOpEveryScreen ==
    [][\A x \in AppComponents :
          SecondNavigate(x) => NavigatorState(nav') = NavigatorState(nav)]_vars

\* C7: for the identities the navigator keeps as current_component
\* (HomeScreen and Editor) the second navigate(X) changes nothing: no
\* transition starts, so nothing is exited and nothing is built
C7_SecondNavigateNoOp ==
    [][\A x \in {HomeScreen, Editor} :
          SecondNavigate(x) =>
              /\ NavigatorState(nav') = NavigatorState(nav)
              /\ ~nav'.fresh /\ asyncq' = <<>> /\ tasks' = <<>>]_vars

C7_Witness ==
    /\ last.op = "navigate" /\ last.prev = "render" /\ last.arg = Editor
    /\ last.req = Some(Editor) /\ last.built /\ ~nav.fresh
    /\ nav.current_component = Editor /\ nav.transitioning = None
    /\ nav.component.kind = "Editor" /\ nav.component.buffer = Buffer_new(None)
    /\ asyncq = <<>>

\* C8: return_last_component() at Home with no previous screen returns
\* false, changes no field of the navigator and starts no effect
C8_ReturnAtHomeIsNoOp ==
    [][(last'.op = "return_last_component"
            /\ nav.current_component = HomeScreen
            /\ nav.previous_component = None)
        => (~last'.ret /\ NavigatorState(nav') = NavigatorState(nav)
            /\ asyncq' = <<>>)]_vars

C8_Witness ==
    /\ last.op = "return_last_component" /\ last.prev = "return_last_component"
    /\ ~last.ret
    /\ nav.current_component = HomeScreen /\ nav.previous_component = None

\* C9 as claimed: a completed navigation from S to a different T records S
\* as the previous screen
C9_PreviousRecorded ==
    [][(nav'.fresh /\ nav'.current_component # nav.current_component)
        => nav'.previous_component = Some(nav.current_component)]_vars

\* Navigate(None) handled when return_last_component() answers false
QuitFallback ==
    /\ last'.op = "handle_async_action" /\ last'.arg = Navigate(None)
    /\ ~return_last_component(Cleared(nav)).ret

\* C10 as claimed: Quit is enqueued and the result is NotConsumed
C10_QuitReportedNotConsumed ==
    [][QuitFallback => (actionq' = <<Act("Quit")>> /\ ~is_consumed(last'.res))]_vars

\* C10: Quit is enqueued, nothing else changes, and the result is
\* Consumed without a rerender request
C10_QuitReportedConsumed ==
    [][QuitFallback =>
          /\ actionq' = <<Act("Quit")>>
          /\ last'.res = consumed(FALSE)
          /\ NavigatorState(nav') = NavigatorState(nav)]_vars

C10_Witness ==
    /\ last.op = "handle_async_action" /\ last.arg = Navigate(None)
    /\ nav.current_component = HomeScreen /\ nav.transitioning = None
    /\ actionq = <<Act("Quit")>>

-----------------------------------------------------------------------------
(* SpecPreview: a PreviewComponent, its task and the AsyncAction channel.
   last.arg is the path of the latest change_dir; a PreviewContents carries
   as src the path its task read. *)

PreviewLines == {0, 1, 2}

InitPreview ==
    /\ fs \in {f \in InitialFilesystems : \A q \in FilePaths : f[q] # File(<<>>)}
    /\ pv = PreviewComponent_default
    /\ asyncq = <<>>
    /\ last = NoCall
    /\ tasks = <<>> /\ actionq = <<>>
    /\ app = App_create
    /\ nav = new_with_starting_component(HomeScreen)
    /\ wf = NoWrite

PvChangeDir(dir) ==
    /\ pv' = change_dir(pv, dir)
    /\ last' = Last("change_dir", [tag |-> "path", path |-> pv'.path_buf],
                    DefaultResult, FALSE, None, FALSE, last.op)
    /\ UNCHANGED <<fs, asyncq, tasks, actionq, app, nav, wf>>

PvRender(lines) ==
    /\ pv' = Preview_render(pv, lines)
    /\ last' = [last EXCEPT !.op = "render", !.prev = last.op]
    /\ UNCHANGED <<fs, asyncq, tasks, actionq, app, nav, wf>>

PvHandleAction(action) ==
    /\ pv' = Preview_handle_action(pv, action).st
    /\ last' = [last EXCEPT !.op = "handle_action", !.prev = last.op]
    /\ UNCHANGED <<fs, asyncq, tasks, actionq, app, nav, wf>>

\* the preview task ends: it sends what it read, or the error
PvTaskEnds(io) ==
    /\ IsSome(pv.task)
    /\ Len(asyncq) < MaxQueue
    /\ LET path == Unwrap(pv.task)
           read == read_dir_limited(fs, path, pv.lines, io)
       IN asyncq' = Append(asyncq, IF IsSome(read) THEN PreviewContents(read, path)
                                   ELSE AsyncError(path))
    /\ pv' = [pv EXCEPT !.task = None]
    /\ last' = [last EXCEPT !.op = "task", !.prev = last.op]
    /\ UNCHANGED <<fs, tasks, actionq, app, nav, wf>>

PvHandleAsyncAction ==
    /\ asyncq # <<>>
    /\ pv' = Preview_handle_async_action(pv, Head(asyncq)).st
    /\ asyncq' = Tail(asyncq)
    /\ last' = [last EXCEPT !.op = "handle_async_action", !.prev = last.op,
                            !.res = Preview_handle_async_action(pv, Head(asyncq)).res,
                            !.req = IF Head(asyncq).tag = "PreviewContents"
                                    THEN Some(Head(asyncq).src) ELSE None]
    /\ UNCHANGED <<fs, tasks, actionq, app, nav, wf>>

NextPreview ==
    \/ \E dir \in {None} \cup {Some(q) : q \in FilePaths} : PvChangeDir(dir)
    \/ \E lines \in PreviewLines : PvRender(lines)
    \/ \E tag \in {"TogglePreview", "ReloadPreview"} : PvHandleAction(Act(tag))
    \/ \E io \in ReadIo : PvTaskEnds(io)
    \/ PvHandleAsyncAction

SpecPreview == InitPreview /\ [][NextPreview]_vars

\* C5 as claimed: once change_dir(p) was called, a PreviewContents read for
\* another path is never stored as the preview's contents
C5_NoStalePreview ==
    [][(last.arg.tag = "path"
            /\ asyncq # <<>> /\ Head(asyncq).tag = "PreviewContents"
            /\ Head(asyncq).src # pv.path_buf
            /\ asyncq' = Tail(asyncq))
        => pv'.contents # Head(asyncq).contents]_vars

-----------------------------------------------------------------------------
(* Spec: App::run.  app.pc is the position in the loop body: "event"
   (handle_event), "actions" (handle_action), "asyncs" (handle_async_action),
   then "exited", or "panicked" when a call aborted the process.  Background
   tasks end at any moment of the loop.  last records the call a dispatch
   step made and is NoCall after every other step. *)

\* the key bindings are the user's, so a key gives any Action
KeyActions ==
    {Act(tag) : tag \in {"Up", "Down", "Confirm", "Cancel", "Select", "Backspace",
                         "Save", "SaveTo", "OpenFile", "Return", "Search",
                         "NewFile", "FileHistory", "Config", "Quit"}}
        \cup {Character(c) : c \in Chars}

\* App::new_in_editor(file_path), then App::run up to its loop
Started(file_path) ==
    LET start == IF IsSome(file_path) THEN OpenedEditor(Unwrap(file_path)) ELSE HomeScreen
        i == Navigator_init(Registered(new_with_starting_component(start)))
    IN /\ fs = WorkingFilesystem
       /\ nav = i.st
       /\ actionq = i.acts /\ asyncq = i.asyncs /\ tasks = i.spawns
       /\ app = [App_create EXCEPT !.should_rerender = FALSE]
       /\ last = NoCall
       /\ wf = NoWrite
       /\ pv = PreviewComponent_default

\* a file argument that names no file
MissingPath == FilePath(<<"a", "a">>)

\* texti, texti <existing file> or texti <new file>
Init == \E file_path \in {None, Some(ConfigPath), Some(MissingPath)} : Started(file_path)

Step(op, arg, res) == Last(op, arg, res, FALSE, None, FALSE, "none")

InputBounded(sel) ==
    /\ IsSome(sel.text_area) => Len(Unwrap(sel.text_area)) <= MaxName
    /\ IsSome(sel.filter) => Len(Unwrap(sel.filter)) <= MaxName

\* the bounds of the model: what a call leaves, sends and spawns stays
\* within the texts, names, paths and task slots of the model
Bounded(r) ==
    /\ Len(tasks) + Len(r.spawns) <= MaxTasks
    /\ \A i \in 1..Len(r.spawns) : r.spawns[i].path \in Paths
    /\ \A i \in 1..Len(r.asyncs) :
          /\ r.asyncs[i].tag = "SelectPath" => r.asyncs[i].path \in Paths
          /\ (r.asyncs[i].tag = "Navigate" /\ IsSome(r.asyncs[i].screen)
                /\ Unwrap(r.asyncs[i].screen).tag = "OpenedEditor")
                    => Unwrap(Unwrap(r.asyncs[i].screen).path) \in Paths
    /\ IF r.st.component.kind = "Editor"
          THEN /\ Len(r.st.component.buffer.text) <= MaxText
               /\ InputBounded(r.st.component.file_dialog)
          ELSE InputBounded(r.st.component.file_selector_component)

\* a flag raised by every result
flag_for_rerender_always(a, res) == [a EXCEPT !.should_rerender = TRUE]

\* flag_for_rerender_if_asked
flag_for_rerender_if_asked(a, res) ==
    IF ~a.should_rerender /\ should_rerender(res)
        THEN [a EXCEPT !.should_rerender = TRUE] ELSE a

TickEvent ==
    /\ app.pc = "event" /\ app.events < MaxEvents
    /\ actionq' = Append(actionq, Act("Tick"))
    /\ app' = [app EXCEPT !.pc = "actions", !.events = @ + 1]
    /\ last' = NoCall
    /\ UNCHANGED <<fs, tasks, asyncq, nav, wf, pv>>

\* Event::Render: App::render draws only when should_rerender is set
RenderEvent(finished) ==
    /\ app.pc = "event" /\ app.events < MaxEvents
    /\ IF app.should_rerender
          THEN \E r \in {Navigator_render(Cleared(nav), finished)} :
                  /\ Bounded(r)
                  /\ nav' = r.st
                  /\ asyncq' = asyncq \o r.asyncs
                  /\ tasks' = tasks \o r.spawns
          ELSE UNCHANGED <<nav, asyncq, tasks>>
    /\ app' = [app EXCEPT !.pc = "actions", !.should_rerender = FALSE, !.events = @ + 1]
    /\ last' = IF app.should_rerender THEN Step("render", NoArg, DefaultResult) ELSE NoCall
    /\ UNCHANGED <<fs, actionq, wf, pv>>

ResizeEvent ==
    /\ app.pc = "event" /\ app.events < MaxEvents
    /\ app' = [app EXCEPT !.pc = "actions", !.should_rerender = TRUE, !.events = @ + 1]
    /\ last' = NoCall
    /\ UNCHANGED <<fs, tasks, actionq, asyncq, nav, wf, pv>>

KeyEvent(action) ==
    /\ app.pc = "event" /\ app.events < MaxEvents
    /\ actionq' = Append(actionq, action)
    /\ app' = [app EXCEPT !.pc = "actions", !.events = @ + 1]
    /\ last' = NoCall
    /\ UNCHANGED <<fs, tasks, asyncq, nav, wf, pv>>

ErrorEvent ==
    /\ app.pc = "event" /\ app.events < MaxEvents
    /\ Len(asyncq) < MaxQueue
    /\ asyncq' = Append(asyncq, AsyncError(Root))
    /\ app' = [app EXCEPT !.pc = "actions", !.events = @ + 1]
    /\ last' = NoCall
    /\ UNCHANGED <<fs, tasks, actionq, nav, wf, pv>>

handle_action_returns_after_first(action) == TRUE

\* App::handle_action leaves its loop early on Action::Quit
handle_action_returns(action) == action.tag = "Quit"

\* one turn of the loop of App::handle_action
HandleAction ==
    /\ app.pc = "actions"
    /\ IF actionq = <<>>
          THEN /\ app' = [app EXCEPT !.pc = "asyncs"]
               /\ last' = NoCall
               /\ UNCHANGED <<fs, tasks, actionq, asyncq, nav, wf, pv>>
          ELSE LET action == Head(actionq)
                   pc == IF handle_action_returns(action) THEN "asyncs" ELSE "actions"
               IN IF action.tag = "Quit"
                    THEN /\ app' = [app EXCEPT !.should_quit = TRUE, !.pc = pc]
                         /\ actionq' = Tail(actionq)
                         /\ last' = Step("action", action, DefaultResult)
                         /\ UNCHANGED <<fs, tasks, asyncq, nav, wf, pv>>
                  ELSE IF Component_panics(nav.component, action)
                    THEN /\ app' = [app EXCEPT !.pc = "panicked"]
                         /\ actionq' = Tail(actionq)
                         /\ last' = Step("action", action, DefaultResult)
                         /\ UNCHANGED <<fs, tasks, asyncq, nav, wf, pv>>
                  ELSE \E r \in {Navigator_handle_action(Cleared(nav), fs, action)} :
                          /\ Bounded(r)
                          /\ nav' = r.st
                          /\ actionq' = Tail(actionq) \o r.acts
                          /\ asyncq' = asyncq \o r.asyncs
                          /\ tasks' = tasks \o r.spawns
                          /\ app' = [flag_for_rerender_if_asked(app, r.res)
                                        EXCEPT !.pc = pc]
                          /\ last' = Step("action", action, r.res)
                          /\ UNCHANGED <<fs, wf, pv>>

\* one turn of the loop of App::handle_async_action, then the test of
\* should_quit that ends App::run
HandleAsyncAction ==
    /\ app.pc = "asyncs"
    /\ IF asyncq = <<>>
          THEN /\ app' = [app EXCEPT !.pc = IF app.should_quit THEN "exited" ELSE "event"]
               /\ last' = NoCall
               /\ UNCHANGED <<fs, tasks, actionq, asyncq, nav, wf, pv>>
          ELSE \E action \in {Head(asyncq)} :
               \E r \in {Navigator_handle_async_action(Cleared(nav), fs, action)} :
                  /\ Bounded(r)
                  /\ nav' = r.st
                  /\ actionq' = actionq \o r.acts
                  /\ asyncq' = Tail(asyncq) \o r.asyncs
                  /\ tasks' = tasks \o r.spawns
                  /\ app' = flag_for_rerender_if_asked(app, r.res)
                  /\ last' = Step("async", action, r.res)
                  /\ UNCHANGED <<fs, wf, pv>>

Remove(seq, i) == SubSeq(seq, 1, i - 1) \o SubSeq(seq, i + 1, Len(seq))

\* a background task ends: a save runs write_file, a load runs read_dir,
\* and the result goes on the AsyncAction channel
TaskEnds(i, io) ==
    /\ app.pc \in {"event", "actions", "asyncs"}
    /\ i \in 1..Len(tasks)
    /\ Len(asyncq) < MaxQueue
    /\ LET task == tasks[i]
       IN IF task.kind = "save"
            THEN /\ io \in WriteIo
                 /\ LET w == write_file(fs, task.path, task.lines, task.overwrite, io)
                    IN /\ fs' = w.fs
                       /\ asyncq' = Append(asyncq, SavedFile(w.result))
            ELSE /\ io \in ReadIo
                 /\ fs' = fs
                 /\ asyncq' = Append(asyncq, read_dir(fs, task.path, io))
    /\ tasks' = Remove(tasks, i)
    /\ last' = NoCall
    /\ UNCHANGED <<actionq, app, nav, wf, pv>>

Next ==
    \/ TickEvent
    \/ \E finished \in BOOLEAN : RenderEvent(finished)
    \/ ResizeEvent
    \/ \E action \in KeyActions : KeyEvent(action)
    \/ ErrorEvent
    \/ HandleAction
    \/ HandleAsyncAction
    \/ \E i \in 1..MaxTasks, io \in WriteIo \cup ReadIo : TaskEnds(i, io)

Spec == Init /\ [][Next]_vars

-----------------------------------------------------------------------------
(* The claims about App::run and the editor's background tasks *)

\* the dispatch of the Save that the confirm dialog re-issued on Confirm
ReissuedSaveDispatched ==
    /\ app.pc = "actions" /\ nav.component.kind = "Editor"
    /\ last.op = "action" /\ last.arg = Act("Confirm") /\ is_consumed(last.res)
    /\ actionq # <<>> /\ Head(actionq) = Act("Save")
    /\ last'.op = "action" /\ last'.arg = Act("Save")

\* C1 as claimed: after a write with overwrite=false met an existing target
\* and the confirm dialog was shown, Confirm re-issues Save and the dispatch
\* of that Save spawns a write with overwrite=true
C1_ConfirmedOverwriteIsSpawned ==
    [][ReissuedSaveDispatched =>
          \E i \in 1..Len(tasks') :
              tasks'[i].kind = "save" /\ tasks'[i].overwrite]_vars

\* C3: the drain of App::handle_action ends with the Action queue empty, and
\* an AsyncAction is dispatched only after that drain, in the same iteration
C3_ActionsDrainedBeforeAsyncActions ==
    [][/\ (app.pc = "actions" /\ app'.pc = "asyncs") => actionq' = <<>>
       /\ last'.op = "async" => app.pc = "asyncs"]_vars

\* a save's result was dispatched with no Action waiting
C3_Witness ==
    /\ app.pc = "asyncs" /\ actionq = <<>>
    /\ last.op = "async" /\ last.arg.tag = "SavedFile"

\* C4 as claimed: a LoadFileContents that is applied was read from the path
\* the editor's buffer has now
C4_LoadAppliedToItsOwnPath ==
    (last.op = "async" /\ last.arg.tag = "LoadFileContents" /\ is_consumed(last.res))
        => /\ nav.component.kind = "Editor"
           /\ nav.component.buffer.file_path = Some(last.arg.src)

\* the save tasks that run, and the results of saves not yet handled
SavesInFlight ==
    Cardinality({i \in 1..Len(tasks) : tasks[i].kind = "save"})
        + Cardinality({i \in 1..Len(asyncq) : asyncq[i].tag = "SavedFile"})

\* C6 as claimed: at most one save of the editor is in flight
C6_AtMostOneSaveInFlight == SavesInFlight <= 1

-----------------------------------------------------------------------------
(* The claims about the navigator's screens, checked under SpecNav *)

\* current_component is HomeScreen or Editor and names the kind of the
\* active component
CurrentNamesComponent(self) ==
    /\ self.current_component \in {HomeScreen, Editor}
    /\ self.current_component = Editor <=> self.component.kind = "Editor"
    /\ self.current_component = HomeScreen <=> self.component.kind = "Home"

\* the component built for the screen `target`, before its init
BuiltFor(target, comp) ==
    CASE target.tag = "OpenedEditor" ->
            /\ comp.kind = "Editor"
            /\ comp.buffer = Buffer_new(target.path)
      [] target.tag = "Editor" ->
            /\ comp.kind = "Editor"
            /\ comp.buffer = Buffer_new(None)
      [] OTHER -> comp.kind = "Home" /\ comp.list_state = None

\* C11: every screen identity builds a component (an editor on the path for
\* OpenedEditor, an empty editor for Editor, Home for the others), and in
\* every reachable state current_component is HomeScreen or Editor and names
\* the kind of the active component
C11_ScreenConstructionTotal ==
    /\ CurrentNamesComponent(nav)
    /\ [][/\ CurrentNamesComponent(nav')
          /\ nav'.fresh => BuiltFor(Unwrap(nav.transitioning), nav'.component)]_vars

\* a navigation to Dialog has completed and built the Home screen
C11_Witness ==
    /\ last.op = "render" /\ nav.fresh /\ last.req = Some(Dialog)
    /\ nav.current_component = HomeScreen /\ nav.component.kind = "Home"

\* the component holds the configuration and both senders
ComponentRegistered(comp) ==
    comp.config /\ comp.action_sender /\ comp.task_result_sender

\* C12: a screen switch calls exit() on the old component first, then
\* register_config, register_action_sender and register_async_action_sender
\* on the new one and init() last; the one active component holds the
\* configuration and the senders in every state, and after the switch it is
\* the new component, initialised
C12_SwitchLifecycle ==
    /\ ComponentRegistered(nav.component)
    /\ [][/\ ComponentRegistered(nav'.component)
          /\ nav'.fresh =>
                /\ nav'.calls = <<Call("exit", "old", nav.component),
                                  Call("register_config", "new", nav'.component),
                                  Call("register_action_sender", "new", nav'.component),
                                  Call("register_async_action_sender", "new",
                                       nav'.component),
                                  Call("init", "new", nav'.component)>>
                /\ nav'.component.kind = "Editor" =>
                      /\ nav'.component.loading = IsSome(nav'.component.buffer.file_path)
                      /\ tasks' = IF nav'.component.loading
                                    THEN <<LoadTask(Unwrap(nav'.component.buffer.file_path))>>
                                    ELSE <<>>]_vars

\* a switch from Home to an editor on a file has completed
C12_Witness ==
    /\ last.op = "render" /\ nav.fresh
    /\ nav.calls # <<>> /\ nav.calls[1] = [call |-> "exit", on |-> "old", kind |-> "Home"]
    /\ nav.component.kind = "Editor" /\ nav.component.loading
    /\ ComponentRegistered(nav.component)

-----------------------------------------------------------------------------
(* The claims about dispatch, checked under Spec *)

\* C13: while a navigation is pending, every Action and every AsyncAction
\* other than Navigate is dispatched to the current component, and
\* current_component changes only when the new component is installed
C13_DispatchWhilePending ==
    [][/\ (IsSome(nav.transitioning) /\ last'.op = "action"
              /\ last'.arg.tag # "Quit" /\ app'.pc # "panicked")
            => LET r == Component_handle_action(nav.component, fs, last'.arg)
               IN /\ nav'.component = r.st /\ last'.res = r.res
                  /\ nav'.current_component = nav.current_component
                  /\ nav'.transitioning = nav.transitioning
       /\ (IsSome(nav.transitioning) /\ last'.op = "async"
              /\ last'.arg.tag # "Navigate")
            => LET r == Component_handle_async_action(nav.component, fs, last'.arg)
               IN /\ nav'.component = r.st /\ last'.res = r.res
                  /\ nav'.current_component = nav.current_component
                  /\ nav'.transitioning = nav.transitioning
       /\ nav'.current_component # nav.current_component => nav'.fresh]_vars

\* Home consumed a key while the navigation to the editor was pending
C13_Witness ==
    /\ nav.transitioning = Some(Editor) /\ nav.current_component = HomeScreen
    /\ last.op = "action" /\ last.arg = Act("Up") /\ is_consumed(last.res)
    /\ nav.component.list_state = Some(HomeOptions_COUNT - 1)

-----------------------------------------------------------------------------
(* SpecHistory: a FileHistoryComponent (the one of the Home screen) with its
   preview pane pv, the pane's task and the AsyncAction channel *)

HistoryActions ==
    {Act(tag) : tag \in {"Up", "Down", "Confirm", "Cancel", "TogglePreview",
                         "ReloadPreview", "Resize", "Tick"}}

\* the history lists at most two files, each of one line
HistoryFilesystems ==
    {f \in InitialFilesystems :
        /\ \A q \in FilePaths : f[q] \in {NoFile, File(<<"a">>)}
        /\ f[ConfigPath] # NoFile
        /\ Cardinality({q \in FilePaths : f[q] # NoFile}) <= 2}

InitHistory ==
    /\ fs \in HistoryFilesystems
    /\ nav = new_with_starting_component(HomeScreen)
    /\ pv = PreviewComponent_default
    /\ asyncq = <<>> /\ actionq = <<>> /\ tasks = <<>>
    /\ last = NoCall
    /\ app = App_create
    /\ wf = NoWrite

HistShow ==
    /\ nav' = [nav EXCEPT !.component.file_history_component = FileHistory_show(@, fs)]
    /\ last' = Step("show", NoArg, DefaultResult)
    /\ UNCHANGED <<fs, pv, asyncq, actionq, tasks, app, wf>>

HistHandleAction(action) ==
    /\ ~(action.tag = "Confirm"
            /\ FileHistory_select_panics(nav.component.file_history_component))
    /\ \E d \in {FileHistory_handle_action_with_preview(
                    nav.component.file_history_component, pv, action)} :
          /\ Len(asyncq) + Len(d.reply.asyncs) <= MaxQueue
          /\ nav' = [nav EXCEPT !.component.file_history_component = d.reply.st]
          /\ pv' = d.preview
          /\ asyncq' = asyncq \o d.reply.asyncs
          /\ last' = Step("handle_action", action, d.reply.res)
    /\ UNCHANGED <<fs, actionq, tasks, app, wf>>

HistHandleAsyncAction ==
    /\ asyncq # <<>>
    /\ \E r \in {FileHistory_handle_async_action(
                    nav.component.file_history_component, pv, Head(asyncq))} :
          /\ pv' = r.st
          /\ last' = Step("handle_async_action", Head(asyncq), r.res)
    /\ asyncq' = Tail(asyncq)
    /\ UNCHANGED <<fs, nav, actionq, tasks, app, wf>>

HistRender(lines) ==
    /\ pv' = FileHistory_render(nav.component.file_history_component, pv, lines)
    /\ last' = Step("render", NoArg, DefaultResult)
    /\ UNCHANGED <<fs, nav, asyncq, actionq, tasks, app, wf>>

NextHistory ==
    \/ HistShow
    \/ \E action \in HistoryActions : HistHandleAction(action)
    \/ HistHandleAsyncAction
    \/ \E lines \in PreviewLines : HistRender(lines)
    \/ \E io \in ReadIo : PvTaskEnds(io)

SpecHistory == InitHistory /\ [][NextHistory]_vars

\* C14 as claimed: when the preview pane, the child of the file-history
\* dialog, answers an Action with a rerender request, the result the dialog
\* returns for that Action (which Home and the navigator hand to App as it
\* is when consumed) asks for a rerender too
C14_RerenderAccumulated ==
    [][(/\ last'.op = "handle_action"
        /\ nav.component.file_history_component.opened
        /\ should_rerender(Preview_handle_action(pv, last'.arg).res))
        => should_rerender(last'.res)]_vars

-----------------------------------------------------------------------------
(* Composite dispatch in the Editor (under Spec) *)

\* the children the Editor offers an Action to, as fields of the component
EditorChildren == {"notification", "confirm_dialog", "file_dialog", "search", "help"}

\* the consumers whose state differs between two states of an Editor: the
\* children, and "editor" for the fields the Editor handles itself
ConsumersChanged(old, new) ==
    {f \in EditorChildren : old[f] # new[f]}
        \cup (IF \E f \in DOMAIN old \ EditorChildren : old[f] # new[f]
                THEN {"editor"} ELSE {})

\* C15 as claimed: an Action dispatched to the Editor changes the state of
\* at most one consumer (one child, or the Editor itself)
C15_AtMostOneConsumer ==
    [][(/\ last'.op = "action"
        /\ nav.component.kind = "Editor" /\ nav'.component.kind = "Editor")
        => Cardinality(ConsumersChanged(nav.component, nav'.component)) <= 1]_vars

-----------------------------------------------------------------------------
(* Cancel on hidden dialogs (under Spec) *)

\* the dialogs of a component, hidden or not: confirm dialog and file
\* selector of the Editor, file selector and file history of Home
HiddenCancelNoOp(comp, fsv) ==
    IF comp.kind = "Editor"
        THEN /\ ~ConfirmDialog_visible(comp.confirm_dialog)
                    => ConfirmDialog_handle_action(comp.confirm_dialog, Act("Cancel"))
                            = Reply(comp.confirm_dialog, not_consumed(FALSE))
             /\ ~comp.file_dialog.visible
                    => FileSelector_handle_action(comp.file_dialog, fsv, Act("Cancel"))
                            = Reply(comp.file_dialog, not_consumed(FALSE))
        ELSE /\ ~comp.file_selector_component.visible
                    => FileSelector_handle_action(comp.file_selector_component, fsv,
                                                  Act("Cancel"))
                            = Reply(comp.file_selector_component, not_consumed(FALSE))
             /\ ~comp.file_history_component.opened
                    => FileHistory_handle_action(comp.file_history_component,
                                                 Act("Cancel"))
                            = Reply(comp.file_history_component, not_consumed(FALSE))

\* a dispatched Cancel left every dialog that was hidden as it was
HiddenDialogsKept(old, new) ==
    IF old.kind = "Editor"
        THEN /\ ~ConfirmDialog_visible(old.confirm_dialog)
                    => new.confirm_dialog = old.confirm_dialog
             /\ ~old.file_dialog.visible => new.file_dialog = old.file_dialog
        ELSE /\ ~old.file_selector_component.visible
                    => new.file_selector_component = old.file_selector_component
             /\ ~old.file_history_component.opened
                    => new.file_history_component = old.file_history_component

\* C16: in every reachable state, handle_action(Cancel) on a hidden confirm
\* dialog, file selector or file-history dialog answers NotConsumed without
\* a rerender request, sends nothing and returns the dialog as it was; and
\* every Cancel the app dispatches leaves the hidden dialogs unchanged, so
\* repeating it changes nothing either
C16_HiddenCancelNoOp ==
    /\ HiddenCancelNoOp(nav.component, fs)
    /\ [][/\ HiddenCancelNoOp(nav'.component, fs')
          /\ (last'.op = "action" /\ last'.arg = Act("Cancel"))
                => HiddenDialogsKept(nav.component, nav'.component)]_vars

\* a Cancel was dispatched to Home after its file-history dialog was used
\* and closed: both dialogs are hidden and nobody consumed the Cancel
C16_Witness ==
    /\ last.op = "action" /\ last.arg = Act("Cancel")
    /\ last.res = not_consumed(FALSE)
    /\ nav.component.kind = "Home"
    /\ ~nav.component.file_selector_component.visible
    /\ ~nav.component.file_history_component.opened
    /\ IsSome(nav.component.file_history_component.selected)

-----------------------------------------------------------------------------
(* The editor's background read (under Spec) *)

\* the Editor, loading, is handed the result of the read of its file
LoadResultHandled ==
    /\ last'.op = "async"
    /\ last'.arg.tag \in {"LoadFileContents", "Error"}
    /\ nav.component.kind = "Editor" /\ nav.component.loading
    /\ last'.arg.src = Unwrap(nav.component.buffer.file_path)

\* C17 as claimed: once the result of the background read, LoadFileContents
\* or Error, has been handled by the editor, loading is false
C17_LoadingClearedByResult ==
    [][LoadResultHandled => ~nav'.component.loading]_vars

-----------------------------------------------------------------------------
(* Start-up (under Spec) *)

\* the Editor is handed the result of the read of a path that names no file
MissingFileLoaded ==
    /\ last'.op = "async" /\ last'.arg.tag = "LoadFileContents"
    /\ ~exists(fs, last'.arg.src)
    /\ nav.component.kind = "Editor"

\* C18: started with a file argument the app is on the Editor, which is
\* loading with the read of that file spawned, and without one it is on
\* Home with nothing spawned; the result of reading a path that names no
\* file is LoadFileContents(""), and once the editor has handled it
\* loading is false, the buffer is empty and modified is false
C18_StartUpWithFile ==
    /\ IF nav.component.kind = "Editor"
          THEN /\ nav.current_component = Editor
               /\ IsSome(nav.component.buffer.file_path)
               /\ nav.component.loading
               /\ tasks = <<LoadTask(Unwrap(nav.component.buffer.file_path))>>
          ELSE /\ nav.current_component = HomeScreen
               /\ nav.component.kind = "Home"
               /\ tasks = <<>>
    /\ [][MissingFileLoaded =>
            /\ last'.arg.text = <<>>
            /\ ~nav'.component.loading
            /\ nav'.component.buffer.text = <<>>
            /\ ~nav'.component.buffer.modified]_vars

\* the app was started on a path that names no file, and the result of the
\* read has just been handled by the editor
C18_Witness ==
    /\ last.op = "async" /\ last.arg = LoadFileContents(<<>>, MissingPath)
    /\ nav.component.kind = "Editor"
    /\ nav.component.buffer = Buffer_new(Some(MissingPath))
    /\ ~nav.component.loading
    /\ ~exists(fs, MissingPath)
    /\ app.events > 0

-----------------------------------------------------------------------------
(* Save (under Spec) *)

\* Action::Save is dispatched to the Editor
SaveDispatched ==
    /\ last'.op = "action" /\ last'.arg = Act("Save")
    /\ nav.component.kind = "Editor"

\* ... and no child consumes it, so the Editor handles it itself
SaveHandled ==
    /\ SaveDispatched
    /\ ~is_consumed(child_handle_action(nav.component, fs, Act("Save")).res)

\* C19: Save handled by the Editor on an unmodified buffer with a path is
\* NotConsumed, changes nothing and spawns nothing; on a buffer without a
\* path it shows the file selector in NewFile mode and spawns nothing; on a
\* modified buffer with a path it spawns the write of the text to that path;
\* and no dispatched Save spawns anything in another case
C19_SaveGuards ==
    [][/\ SaveHandled =>
            LET buffer == nav.component.buffer
            IN IF ~IsSome(buffer.file_path)
                  THEN /\ nav'.component.file_dialog.visible
                       /\ nav'.component.file_dialog.selector_type = "NewFile"
                       /\ tasks' = tasks
               ELSE IF ~buffer.modified
                  THEN /\ last'.res = not_consumed(FALSE)
                       /\ nav'.component = nav.component
                       /\ tasks' = tasks
               ELSE tasks' = Append(tasks, SaveTask(Unwrap(buffer.file_path),
                                                    buffer.text, TRUE))
       /\ (SaveDispatched /\ tasks' # tasks) =>
            /\ SaveHandled
            /\ IsSome(nav.component.buffer.file_path)
            /\ nav.component.buffer.modified]_vars

\* Save has just been handled by an Editor without a path: the file
\* selector is shown in NewFile mode and no task runs
C19_Witness ==
    /\ last.op = "action" /\ last.arg = Act("Save")
    /\ nav.component.kind = "Editor"
    /\ ~IsSome(nav.component.buffer.file_path)
    /\ nav.component.file_dialog.visible
    /\ nav.component.file_dialog.selector_type = "NewFile"
    /\ tasks = <<>>

-----------------------------------------------------------------------------
(* SpecEditor: App::run from the moment the Editor that Home's "New file"
   opens is on screen: a buffer without a path, the channels empty and no
   task running.  The events are counted from there. *)

\* the navigator after Navigate(Editor) on Home and the render that ends
\* the leave transition
EditorEntered ==
    LET started == Navigator_init(Registered(new_with_starting_component(HomeScreen))).st
        leaving == Navigator_handle_async_action(started, WorkingFilesystem,
                                                 Navigate(Some(Editor))).st
    IN Cleared(Navigator_render(leaving, TRUE).st)

InitEditor ==
    /\ fs = WorkingFilesystem
    /\ nav = EditorEntered
    /\ actionq = <<>> /\ asyncq = <<>> /\ tasks = <<>>
    /\ app = [App_create EXCEPT !.should_rerender = FALSE]
    /\ last = NoCall
    /\ wf = NoWrite
    /\ pv = PreviewComponent_default

SpecEditor == InitEditor /\ [][Next]_vars

\* the Editor is handed SelectPath(P, NewFile) for a path P that names nothing yet
NewPathSelected ==
    /\ last'.op = "async" /\ last'.arg.tag = "SelectPath"
    /\ last'.arg.selector_type = "NewFile"
    /\ ~exists(fs, last'.arg.path)
    /\ nav.component.kind = "Editor"

\* the Editor, waiting for a save, is handed SavedFile(Saved(P))
SavedArrives ==
    /\ last'.op = "async" /\ last'.arg.tag = "SavedFile"
    /\ last'.arg.result.tag = "Saved"
    /\ nav.component.kind = "Editor" /\ nav.component.saving_file

\* a task that writes, without overwriting, to a path that names nothing ends
NewFileWritten(i) ==
    /\ i \in 1..Len(tasks) /\ tasks' = Remove(tasks, i)
    /\ tasks[i].kind = "save" /\ ~tasks[i].overwrite
    /\ ~exists(fs, tasks[i].path)
    /\ last' = NoCall /\ Len(asyncq') = Len(asyncq) + 1

\* C20: Save handled by an Editor without a path shows the file dialog in
\* NewFile mode; a selected path P that names nothing yet makes the Editor
\* spawn the write of its text to P without overwrite, set saving_file, take
\* P as its path and hide the dialog; the write creates P and sends
\* SavedFile(Saved(P)) unless the I/O fails; and when that result is handled
\* the notification reads "File saved", the path is P, modified and
\* saving_file are false and the file dialog is left as it was, hidden
C20_SaveWithoutPath ==
    [][/\ (SaveHandled /\ ~IsSome(nav.component.buffer.file_path))
            => /\ nav'.component.file_dialog.visible
               /\ nav'.component.file_dialog.selector_type = "NewFile"
       /\ NewPathSelected
            => /\ tasks' = Append(tasks, SaveTask(last'.arg.path,
                                                  nav.component.buffer.text, FALSE))
               /\ nav'.component.saving_file
               /\ nav'.component.buffer.file_path = Some(last'.arg.path)
               /\ ~nav'.component.file_dialog.visible
       /\ \A i \in 1..MaxTasks : NewFileWritten(i)
            => \/ /\ asyncq' = Append(asyncq, SavedFile(Saved(tasks[i].path)))
                  /\ fs'[tasks[i].path] = File(tasks[i].lines)
               \/ asyncq' = Append(asyncq, SavedFile(SaveError))
       /\ SavedArrives
            => /\ nav'.component.notification = notify_text("File saved")
               /\ nav'.component.buffer.file_path = last'.arg.result.path
               /\ ~nav'.component.buffer.modified
               /\ ~nav'.component.saving_file
               /\ nav'.component.file_dialog = nav.component.file_dialog]_vars

\* the scenario has run to its end: the file dialog was in NewFile mode, the
\* path typed into it named nothing when the app started and holds the
\* saved text now, and SavedFile(Saved(P)) has just been handled
C20_Witness ==
    /\ last.op = "async" /\ last.arg = SavedFile(Saved(MissingPath))
    /\ nav.component.kind = "Editor"
    /\ nav.component.notification = notify_text("File saved")
    /\ nav.component.buffer.file_path = Some(MissingPath)
    /\ ~nav.component.buffer.modified /\ ~nav.component.saving_file
    /\ ~nav.component.file_dialog.visible
    /\ nav.component.file_dialog.selector_type = "NewFile"
    /\ fs[MissingPath] = File(nav.component.buffer.text)

-----------------------------------------------------------------------------
(* SpecEdit: App::run with the Editor of a new file on screen, as in
   SpecEditor, and the keys and pastes that edit the text.  The clipboard is
   there or not.  None of these actions spawns a task. *)

EditActions ==
    {Act(tag) : tag \in {"Backspace", "Delete", "Left", "Right", "Up", "Down",
                         "SelectLeft", "SelectRight", "Cut", "Copy", "Paste",
                         "Cancel", "Search"}}
        \cup {Character(c) : c \in Chars}

InitEdit ==
    /\ fs = WorkingFilesystem
    /\ \E clipboard \in {None, Some(<<>>)} :
          nav = [EditorEntered EXCEPT !.component.buffer.clipboard_context = clipboard]
    /\ actionq = <<>> /\ asyncq = <<>> /\ tasks = <<>>
    /\ app = [App_create EXCEPT !.should_rerender = FALSE]
    /\ last = NoCall
    /\ wf = NoWrite
    /\ pv = PreviewComponent_default

\* Event::Paste(text)
PasteEvent(t) ==
    /\ app.pc = "event" /\ app.events < MaxEvents
    /\ actionq' = Append(actionq, PasteText(t))
    /\ app' = [app EXCEPT !.pc = "actions", !.events = @ + 1]
    /\ last' = NoCall
    /\ UNCHANGED <<fs, tasks, asyncq, nav, wf, pv>>

NextEdit ==
    \/ TickEvent
    \/ \E finished \in BOOLEAN : RenderEvent(finished)
    \/ ResizeEvent
    \/ \E action \in EditActions : KeyEvent(action)
    \/ \E t \in Texts \ {<<>>} : PasteEvent(t)
    \/ ErrorEvent
    \/ HandleAction
    \/ HandleAsyncAction

SpecEdit == InitEdit /\ [][NextEdit]_vars

\* the Editor has handled an Action and its buffer text is another
TextChanged ==
    /\ last'.op = "action"
    /\ nav.component.kind = "Editor" /\ nav'.component.kind = "Editor"
    /\ nav'.component.buffer.text # nav.component.buffer.text

\* C21 as claimed: after an Action that changed the buffer text (Character,
\* Backspace, Delete, Cut, Paste, PasteText), buffer.modified is true
C21_ModifiedSetByMutation ==
    [][TextChanged => nav'.component.buffer.modified]_vars

-----------------------------------------------------------------------------
(* The modified flag (under Spec) *)

\* modified of the Editor's buffer goes from true to false (the Editor stays)
ModifiedCleared ==
    /\ nav.component.kind = "Editor" /\ nav.component.buffer.modified
    /\ nav'.component.kind = "Editor" /\ ~nav'.fresh
    /\ ~nav'.component.buffer.modified

\* C22 as claimed: modified goes from true to false only when
\* SavedFile(Saved) or LoadFileContents is handled
C22_ModifiedClearedOnlyBySuccess ==
    [][ModifiedCleared =>
          /\ last'.op = "async"
          /\ \/ last'.arg.tag = "LoadFileContents"
             \/ /\ last'.arg.tag = "SavedFile"
                /\ last'.arg.result.tag = "Saved"]_vars

-----------------------------------------------------------------------------
(* Selection and plain arrow keys (under SpecEdit) *)

\* the CursorMove of a plain directional Action
CursorMoveOf(tag) ==
    CASE tag = "Left" -> "Back" [] tag = "Right" -> "Forward" [] OTHER -> tag

\* a plain directional Action is dispatched to the Editor while a selection
\* is active in its buffer (every such state follows, in SpecEdit, the
\* dispatch of a non-directional Action to an Editor with that selection)
PlainArrowOnSelection ==
    /\ last'.op = "action" /\ last'.arg.tag \in {"Up", "Down", "Left", "Right"}
    /\ nav.component.kind = "Editor" /\ is_selecting(nav.component.buffer)

\* C23 as claimed: after the plain directional Action the selection is
\* cancelled and the buffer cursor has moved as the Action says
C23_ArrowCancelsSelection ==
    [][PlainArrowOnSelection =>
          /\ ~is_selecting(nav'.component.buffer)
          /\ nav'.component.buffer.cursor =
                moved_cursor(nav.component.buffer.cursor,
                             Len(nav.component.buffer.text),
                             CursorMoveOf(last'.arg.tag))]_vars

-----------------------------------------------------------------------------
(* Cancel in the file selector (under Spec) *)

\* the file selector of the active component
SelectorOf(comp) ==
    IF comp.kind = "Editor" THEN comp.file_dialog ELSE comp.file_selector_component

\* Cancel is dispatched while the file selector of the active component is
\* visible and holds a non-empty filter
CancelWithFilter ==
    /\ last'.op = "action" /\ last'.arg.tag = "Cancel"
    /\ nav.component.kind \in {"Editor", "Home"}
    /\ nav'.component.kind = nav.component.kind
    /\ SelectorOf(nav.component).visible
    /\ IsSome(current_filter(SelectorOf(nav.component)))

\* C24 as claimed, first stage: with a non-empty filter Cancel only clears
\* the filter; the dialog stays visible and the list selection is kept
C24_CancelClearsFilterFirst ==
    [][CancelWithFilter =>
          /\ SelectorOf(nav'.component).visible
          /\ ~IsSome(current_filter(SelectorOf(nav'.component)))
          /\ SelectorOf(nav'.component).selected
                = SelectorOf(nav.component).selected]_vars

-----------------------------------------------------------------------------
(* The file selector on its own: FileSelectorComponent's show and
   handle_action called in any order on the selector of the Home screen;
   what it sends waits in asyncq, and the receiver takes it before the
   next action is handled *)

SelectorActions ==
    {Act(tag) : tag \in {"Up", "Down", "Confirm", "Select", "Cancel",
                         "Backspace", "Search"}}
        \cup {Character(c) : c \in Chars}

\* the working directory with a second file next to the first
TwoFiles == [WorkingFilesystem EXCEPT ![FilePath(<<"a", "a">>)] = File(<<>>)]

InitSelector ==
    /\ fs \in {WorkingFilesystem, TwoFiles}
    /\ nav = new_with_starting_component(HomeScreen)
    /\ pv = PreviewComponent_default
    /\ asyncq = <<>> /\ actionq = <<>> /\ tasks = <<>>
    /\ last = NoCall
    /\ app = App_create
    /\ wf = NoWrite

SelShow(dir, selector_type) ==
    /\ last.op # "panic"
    /\ nav' = [nav EXCEPT !.component.file_selector_component =
                            FileSelector_show(@, fs, dir, selector_type)]
    /\ last' = Step("show", NoArg, DefaultResult)
    /\ UNCHANGED <<fs, pv, asyncq, actionq, tasks, app, wf>>

SelHandleAction(action) ==
    /\ last.op # "panic"
    /\ asyncq = <<>>
    /\ IF /\ action.tag \in {"Confirm", "Select"}
          /\ FileSelector_select_panics(nav.component.file_selector_component)
          \* the unwrap of select panics and the program ends
          THEN /\ last' = Step("panic", action, DefaultResult)
               /\ UNCHANGED <<nav, asyncq>>
          ELSE \E r \in {FileSelector_handle_action(
                            nav.component.file_selector_component, fs, action)} :
                  /\ InputBounded(r.st)
                  \* move_cursor_down counts on past a list the filter has
                  \* shortened; the model follows it one entry past the children
                  /\ IsSome(r.st.selected) => Unwrap(r.st.selected) <= Len(r.st.children)
                  /\ nav' = [nav EXCEPT !.component.file_selector_component = r.st]
                  /\ asyncq' = asyncq \o r.asyncs
                  /\ last' = Step("handle_action", action, r.res)
    /\ UNCHANGED <<fs, pv, actionq, tasks, app, wf>>

SelReceive ==
    /\ asyncq # <<>>
    /\ asyncq' = Tail(asyncq)
    /\ last' = Step("receive", Head(asyncq), DefaultResult)
    /\ UNCHANGED <<fs, nav, pv, actionq, tasks, app, wf>>

NextSelector ==
    \/ \E dir \in {Root, Cwd}, selector_type \in SelectorTypes :
            SelShow(dir, selector_type)
    \/ \E action \in SelectorActions : SelHandleAction(action)
    \/ SelReceive

SpecSelector == InitSelector /\ [][NextSelector]_vars

\* the selector of SpecSelector and the entry its list selection is on
Sel == nav.component.file_selector_component
OnFolder ==
    /\ Sel.visible /\ IsSome(Sel.selected)
    /\ Unwrap(Sel.selected) < Len(Sel.children)
    /\ Sel.children[Unwrap(Sel.selected) + 1].kind = "Folder"
ChosenFolder == join(Sel.current_path, Sel.children[Unwrap(Sel.selected) + 1].name)

\* the selector descends into the chosen folder: it stays visible, lists
\* the folder, and sends nothing
Descends ==
    /\ nav'.component.file_selector_component.visible
    /\ nav'.component.file_selector_component.current_path = ChosenFolder
    /\ nav'.component.file_selector_component.selected = None
    /\ asyncq' = asyncq

\* the selector sends the chosen folder as the choice and does not descend
PicksFolder ==
    /\ asyncq' = Append(asyncq, SelectPath(ChosenFolder, Sel.selector_type))
    /\ nav'.component.file_selector_component.current_path = Sel.current_path

\* C25 as claimed: Confirm or Select on a folder entry descends for PickFile
\* and sends SelectPath(folder, type) for PickFolder and NewFile
C25_AsClaimed ==
    [][(last'.op = "handle_action" /\ last'.arg.tag \in {"Confirm", "Select"}
            /\ OnFolder)
          => IF can_pick_folder(Sel.selector_type) THEN PicksFolder
             ELSE Descends]_vars

\* C25 amended: Select on a folder entry descends for PickFile and sends
\* SelectPath(folder, type) and hides the dialog for PickFolder and NewFile;
\* Confirm on a folder entry descends for every selector type
C25_ChoosingFolder ==
    [][(last'.op = "handle_action" /\ OnFolder)
          => /\ last'.arg.tag = "Select"
                  => IF can_pick_folder(Sel.selector_type)
                        THEN /\ PicksFolder
                             /\ ~nav'.component.file_selector_component.visible
                        ELSE Descends
             /\ last'.arg.tag = "Confirm" => Descends]_vars

\* Select has just sent a folder as the choice of a selector that allows it
C25_Witness ==
    /\ last.op = "handle_action" /\ last.arg.tag = "Select"
    /\ asyncq # <<>>
    /\ asyncq[Len(asyncq)] \in {SelectPath(Cwd, "PickFolder"), SelectPath(Cwd, "NewFile")}
    /\ ~Sel.visible /\ Sel.current_path = Root

-----------------------------------------------------------------------------
(* Expiry of a notification (under Spec) *)

\* the Ticks the notification of the Editor has counted since it was shown:
\* TickCount::new starts the count at TICKS_UNTIL_REMOVE_POPUP and each
\* Tick that keeps the notification takes one off
TicksCounted(notification) ==
    TICKS_UNTIL_REMOVE_POPUP - Unwrap(notification).count

\* the Editor handles the N-th Tick since its notification was shown,
\* N = TICKS_UNTIL_REMOVE_POPUP
NthTick ==
    /\ last'.op = "action" /\ last'.arg.tag = "Tick"
    /\ nav.component.kind = "Editor" /\ nav'.component.kind = "Editor"
    /\ IsSome(nav.component.notification)
    /\ TicksCounted(nav.component.notification) = TICKS_UNTIL_REMOVE_POPUP - 1
    /\ last'.res = consumed(TRUE)

\* C26 as claimed: after the N-th Tick no notification is shown any more
C26_ExpiresAfterNTicks ==
    [][NthTick => nav'.component.notification = None]_vars

-----------------------------------------------------------------------------
(* The confirm dialog of the Editor (under SpecEditor) *)

\* `action` is dispatched to the Editor, which stays the active component,
\* and reaches the confirm dialog: the notification, which
\* child_handle_action asks first, does not consume it
EditorHandles(action) ==
    /\ last'.op = "action" /\ last'.arg = action
    /\ nav.component.kind = "Editor" /\ nav'.component.kind = "Editor"
    /\ ~is_consumed(Notification_handle_action(nav.component.notification, action).res)

\* SavedFile(ConfirmOverwrite) is handled by an Editor that is saving
OverwriteAsked ==
    /\ last'.op = "async" /\ last'.arg.tag = "SavedFile"
    /\ last'.arg.result.tag = "ConfirmOverwrite"
    /\ nav.component.kind = "Editor" /\ nav.component.saving_file

-----------------------------------------------------------------------------
(* Key lookup while a modal is visible (under SpecEditor) *)

\* override_keybind_id of the modals, of the Editor, of Home and of the
\* Navigator
FileSelector_override_keybind_id(sel) == IF sel.visible THEN Some(FileDialog) ELSE None
FileHistory_override_keybind_id(fh) == IF fh.opened THEN Some(FileDialog) ELSE None
ConfirmDialog_override_keybind_id(dialog) ==
    IF ConfirmDialog_visible(dialog) THEN Some(Dialog) ELSE None

Editor_override_keybind_id(ed) ==
    IF IsSome(FileSelector_override_keybind_id(ed.file_dialog))
        THEN FileSelector_override_keybind_id(ed.file_dialog)
    ELSE IF IsSome(ConfirmDialog_override_keybind_id(ed.confirm_dialog))
        THEN ConfirmDialog_override_keybind_id(ed.confirm_dialog)
    ELSE Some(Editor)

Home_override_keybind_id(home) ==
    IF IsSome(FileSelector_override_keybind_id(home.file_selector_component))
        THEN FileSelector_override_keybind_id(home.file_selector_component)
    ELSE IF IsSome(FileHistory_override_keybind_id(home.file_history_component))
        THEN FileHistory_override_keybind_id(home.file_history_component)
    ELSE Some(HomeScreen)

Navigator_override_keybind_id(self) ==
    IF self.component.kind = "Editor" THEN Editor_override_keybind_id(self.component)
    ELSE Home_override_keybind_id(self.component)

\* App::handle_key_event: the screen whose bindings resolve the key
key_lookup_component(self) ==
    IF IsSome(Navigator_override_keybind_id(self))
        THEN Unwrap(Navigator_override_keybind_id(self))
        ELSE self.current_component

\* the screen id of the visible modal that handle_action of the active
\* component asks first, if a modal is visible
first_modal(comp) ==
    IF comp.kind = "Editor"
        THEN IF ConfirmDialog_visible(comp.confirm_dialog) THEN Some(Dialog)
             ELSE IF comp.file_dialog.visible THEN Some(FileDialog)
             ELSE None
        ELSE IF comp.file_selector_component.visible
                    \/ comp.file_history_component.opened
                THEN Some(FileDialog)
                ELSE None

\* C28 as claimed: with the confirm dialog visible in the Editor keys are
\* looked up on the Dialog screen, with a file selector or the file history
\* visible on the FileDialog screen, and the modal whose screen is used for
\* the lookup is the one that gets the Action first
C28_KeyLookupFollowsModal ==
    /\ (nav.component.kind = "Editor"
            /\ ConfirmDialog_visible(nav.component.confirm_dialog))
        => key_lookup_component(nav) = Dialog
    /\ (nav.component.kind = "Editor" /\ nav.component.file_dialog.visible)
        => key_lookup_component(nav) = FileDialog
    /\ (nav.component.kind = "Home"
            /\ (nav.component.file_selector_component.visible
                    \/ nav.component.file_history_component.opened))
        => key_lookup_component(nav) = FileDialog
    /\ IsSome(first_modal(nav.component))
        => key_lookup_component(nav) = Unwrap(first_modal(nav.component))

-----------------------------------------------------------------------------
(* The clipboard is unavailable (under SpecEdit) *)

\* an Action that needs the clipboard is handled by the Editor itself (no
\* search box in front of it) while the buffer has no clipboard context:
\* Paste, or Cut or Copy of a non-empty selection
ClipboardMissed ==
    /\ last'.op = "action"
    /\ nav.component.kind = "Editor" /\ nav'.component.kind = "Editor"
    /\ ~nav.component.search
    /\ ~IsSome(nav.component.buffer.clipboard_context)
    /\ \/ last'.arg.tag = "Paste"
       \/ /\ last'.arg.tag \in {"Cut", "Copy"}
          /\ IsSome(selection_range(nav.component.buffer))
          /\ selected_text(nav.component.buffer) # <<>>

\* C29 as claimed: the Action fails with an error notification, the
\* clipboard stays unavailable and the loop goes on
C29_ClipboardUnavailable ==
    [][ClipboardMissed =>
          /\ IsSome(nav'.component.notification)
          /\ Unwrap(nav'.component.notification).error
          /\ ~IsSome(nav'.component.buffer.clipboard_context)
          /\ app'.pc # "panicked"]_vars

-----------------------------------------------------------------------------
(* I/O failures reach the user (under Spec) *)

\* AsyncAction::Error or SavedFile(Error) is handled while the Editor or
\* Home is the active component
FailureHandled ==
    /\ last'.op = "async"
    /\ \/ last'.arg.tag = "Error"
       \/ last'.arg.tag = "SavedFile" /\ last'.arg.result.tag = "Error"
    /\ nav.component.kind \in {"Editor", "Home"}
    /\ nav'.component.kind = nav.component.kind

\* the active component shows an error notification; Home has no
\* notification component
ErrorShown(comp) ==
    /\ comp.kind = "Editor"
    /\ IsSome(comp.notification)
    /\ Unwrap(comp.notification).error

\* C30 as claimed: every failure handled ends in a visible error
\* notification on the active screen, and the loop goes on
C30_FailureNotified ==
    [][FailureHandled =>
          /\ ErrorShown(nav'.component)
          /\ app'.pc # "panicked" /\ ~app'.should_quit]_vars

-----------------------------------------------------------------------------
(* Render gating (under Spec) *)

\* App::render has drawn a frame in this step
Drawn == last'.op = "render"

-----------------------------------------------------------------------------
(* Save and load of a text of several lines.  Here the text area is its
   list of lines (tui_textarea::TextArea::lines) with the cursor at the end
   of the last line, and a file holds characters, among them the line feed
   and the carriage return; nav holds the text area, fs the files. *)

CarriageReturn == "r"
PasteChars == Chars \cup {Newline, CarriageReturn}
PasteTexts ==
    UNION {[1..k -> PasteChars] : k \in 1..MaxText}

\* lines.join("\n")
RECURSIVE Lines_join(_)
Lines_join(lines) ==
    IF Len(lines) = 1 THEN lines[1]
    ELSE Head(lines) \o <<Newline>> \o Lines_join(Tail(lines))

\* str::split('\n')
RECURSIVE Lines_split(_)
Lines_split(t) ==
    IF \A i \in 1..Len(t) : t[i] # Newline THEN <<t>>
    ELSE LET i == CHOOSE j \in 1..Len(t) :
                        t[j] = Newline /\ \A k \in 1..(j - 1) : t[k] # Newline
         IN <<SubSeq(t, 1, i - 1)>> \o Lines_split(SubSeq(t, i + 1, Len(t)))

\* strip_suffix('\r').unwrap_or(s)
strip_suffix_cr(piece) ==
    IF piece # <<>> /\ piece[Len(piece)] = CarriageReturn
        THEN SubSeq(piece, 1, Len(piece) - 1) ELSE piece

\* TextArea::insert_str with the cursor at the end: the string is split at
\* line feeds, a carriage return before a line feed or at the end goes, the
\* first piece continues the last line and every further piece is a new line
Lines_insert_str(lines, t) ==
    LET pieces == [i \in 1..Len(Lines_split(t)) |-> strip_suffix_cr(Lines_split(t)[i])]
        n == Len(lines)
    IN SubSeq(lines, 1, n - 1) \o <<lines[n] \o Head(pieces)>> \o Tail(pieces)

\* TextArea::insert_newline, insert_char and delete_char at the end
Lines_insert_newline(lines) == Append(lines, <<>>)
Lines_insert_char(lines, c) ==
    IF c \in {Newline, CarriageReturn} THEN Lines_insert_newline(lines)
    ELSE [lines EXCEPT ![Len(lines)] = Append(@, c)]
Lines_delete_char(lines) ==
    IF lines[Len(lines)] # <<>>
        THEN [lines EXCEPT ![Len(lines)] = SubSeq(@, 1, Len(@) - 1)]
    ELSE IF Len(lines) > 1 THEN SubSeq(lines, 1, Len(lines) - 1)
    ELSE lines

\* TextArea::default()
Lines_default == <<<<>>>>

\* Buffer::clear_text and insert_str of load_file_contents
Lines_load_file_contents(contents) == Lines_insert_str(Lines_default, contents)

LinesBounded(lines) == Len(Lines_join(lines)) <= MaxText

InitRoundTrip ==
    /\ fs = WorkingFilesystem
    /\ nav = [lines |-> Lines_default]
    /\ pv = PreviewComponent_default
    /\ asyncq = <<>> /\ actionq = <<>> /\ tasks = <<>>
    /\ last = NoCall
    /\ app = App_create
    /\ wf = NoWrite

RtEdit(op, lines) ==
    /\ LinesBounded(lines)
    /\ nav' = [nav EXCEPT !.lines = lines]
    /\ last' = Step(op, NoArg, DefaultResult)
    /\ UNCHANGED <<fs, pv, asyncq, actionq, tasks, app, wf>>

RtCharacter(c) == RtEdit("add_char", Lines_insert_char(nav.lines, c))
RtNewLine == RtEdit("new_line", Lines_insert_newline(nav.lines))
RtBackspace == RtEdit("backspace", Lines_delete_char(nav.lines))
RtPasteText(t) == RtEdit("paste_text", Lines_insert_str(nav.lines, t))

\* save_file_at(path, true) with its write_file task run to the end
RtSave(io) ==
    /\ \E w \in {write_file(fs, ConfigPath, Lines_join(nav.lines), TRUE, io)} :
          /\ fs' = w.fs
          /\ last' = Step("save", [tag |-> "saved", lines |-> nav.lines,
                                   result |-> w.result], DefaultResult)
    /\ UNCHANGED <<nav, pv, asyncq, actionq, tasks, app, wf>>

\* load_file with its read_dir task run to the end and the result handled,
\* after a save that answered Saved
RtLoad(io) ==
    /\ last.op = "save" /\ last.arg.result = Saved(ConfigPath)
    /\ \E r \in {read_dir(fs, ConfigPath, io)} :
          /\ nav' = IF r.tag = "LoadFileContents"
                        THEN [nav EXCEPT !.lines = Lines_load_file_contents(r.text)]
                        ELSE nav
          /\ last' = Step("load", [last.arg EXCEPT !.tag = r.tag], DefaultResult)
    /\ UNCHANGED <<fs, pv, asyncq, actionq, tasks, app, wf>>

NextRoundTrip ==
    \/ \E c \in Chars : RtCharacter(c)
    \/ RtNewLine
    \/ RtBackspace
    \/ \E t \in PasteTexts : RtPasteText(t)
    \/ \E io \in WriteIo : RtSave(io)
    \/ \E io \in ReadIo : RtLoad(io)

SpecRoundTrip == InitRoundTrip /\ [][NextRoundTrip]_vars

\* C32 as claimed: after a save that answered Saved and a load of the same
\* path that read the file, the lines of the text area are the lines saved
C32_RoundTrip ==
    (last.op = "load" /\ last.arg.tag = "LoadFileContents")
        => nav.lines = last.arg.lines

-----------------------------------------------------------------------------
(* tui.rs Tui::stop_receiving_events.  app holds the call: where it stands,
   its counter, whether the token is cancelled and whether abort() was
   called; tasks holds whether the event task has finished. *)

ABORT_AFTER == 50
GIVE_UP_AFTER == 100

\* Tui::cancel, then `let mut counter = 0`
cancel(self) == [self EXCEPT !.cancelled = TRUE, !.counter = 0, !.pc = "test"]

\* the test of the while loop: event_loop_task.is_finished()
loop_test(self, finished) ==
    [self EXCEPT !.pc = IF finished THEN "ok" ELSE "body"]

\* a body that never calls abort()
loop_body_without_abort(self) ==
    [self EXCEPT !.counter = @ + 1,
                 !.pc = IF self.counter + 1 > GIVE_UP_AFTER THEN "err" ELSE "test"]

\* the body of the while loop: sleep, count, abort, give up
loop_body(self) ==
    [self EXCEPT !.counter = @ + 1,
                 !.aborted = @ \/ self.counter + 1 > ABORT_AFTER,
                 !.pc = IF self.counter + 1 > GIVE_UP_AFTER THEN "err" ELSE "test"]

\* Tui::exit is called while the event task runs or after it has ended
InitShutdown ==
    /\ app = [pc |-> "call", counter |-> 0, cancelled |-> FALSE, aborted |-> FALSE]
    /\ tasks \in {[finished |-> FALSE], [finished |-> TRUE]}
    /\ fs = WorkingFilesystem
    /\ nav = new_with_starting_component(HomeScreen)
    /\ pv = PreviewComponent_default
    /\ asyncq = <<>> /\ actionq = <<>>
    /\ last = NoCall
    /\ wf = NoWrite

StopCancel ==
    /\ app.pc = "call"
    /\ app' = cancel(app)
    /\ UNCHANGED <<fs, nav, pv, tasks, asyncq, actionq, last, wf>>

StopTest ==
    /\ app.pc = "test"
    /\ app' = loop_test(app, tasks.finished)
    /\ UNCHANGED <<fs, nav, pv, tasks, asyncq, actionq, last, wf>>

StopBody ==
    /\ app.pc = "body"
    /\ app' = loop_body(app)
    /\ UNCHANGED <<fs, nav, pv, tasks, asyncq, actionq, last, wf>>

\* the event task ends: it saw the cancelled token, was aborted, or its
\* event stream ended; nothing makes it end
EventTaskFinishes ==
    /\ ~tasks.finished
    /\ tasks' = [tasks EXCEPT !.finished = TRUE]
    /\ UNCHANGED <<fs, nav, pv, app, asyncq, actionq, last, wf>>

StopCall == StopCancel \/ StopTest \/ StopBody

NextShutdown == StopCall \/ EventTaskFinishes

\* the thread that called stop_receiving_events keeps running
SpecShutdown == InitShutdown /\ [][NextShutdown]_vars /\ WF_vars(StopCall)

StopReturned == app.pc \in {"ok", "err"}

\* C33: the call polls at most GIVE_UP_AFTER + 1 times, has called abort()
\* once the counter is past ABORT_AFTER and not before, returns Ok only when
\* it found the task finished, and as soon as it finds that, returns the
\* error exactly when the counter passes GIVE_UP_AFTER, and always returns
C33_ShutdownBounded ==
    /\ [](/\ app.counter <= GIVE_UP_AFTER + 1
          /\ app.aborted <=> app.counter > ABORT_AFTER
          /\ app.pc # "call" => app.cancelled
          /\ app.pc = "ok" => tasks.finished
          /\ app.pc = "err" <=> app.counter > GIVE_UP_AFTER)
    /\ [][(app.pc = "test" /\ tasks.finished /\ app' # app) => app'.pc = "ok"]_vars
    /\ <>StopReturned

\* the task never finished: the call has aborted it and given up
C33_Witness ==
    /\ app.pc = "err" /\ app.aborted /\ ~tasks.finished

-----------------------------------------------------------------------------
(* A pending navigation and the frames that play its effect (under Spec) *)

\* a Tick dispatched now changes nothing and asks for no rerender
TickChangesNothing ==
    LET r == Navigator_handle_action(Cleared(nav), fs, Act("Tick"))
    IN /\ r.st = Cleared(nav)
       /\ ~should_rerender(r.res)
       /\ r.acts = <<>> /\ r.asyncs = <<>> /\ r.spawns = <<>>

\* a navigation is pending while App waits for an event with nothing queued
\* and no task running, the dirty flag is clear and a Tick changes nothing:
\* Event::Render draws no frame, so the leave effect is never processed, and
\* Tick and Render events leave this state as it is for ever
PendingAndStill ==
    /\ IsSome(nav.transitioning) /\ nav.running
    /\ app.pc = "event" /\ ~app.should_quit
    /\ actionq = <<>> /\ asyncq = <<>> /\ tasks = <<>>
    /\ ~app.should_rerender
    /\ TickChangesNothing

\* C34 as claimed: a pending navigation completes with Tick and Render
\* events alone, so it is never in a state that those events cannot leave
C34_PendingNavigationCompletes == ~PendingAndStill

-----------------------------------------------------------------------------
(* The entry a visible selector acts on (under SpecSelector) *)

\* the list selection is on an entry of the displayed list
OnShownEntry ==
    /\ Sel.visible /\ IsSome(Sel.selected)
    /\ Unwrap(Sel.selected) < Len(active_list(Sel))
ShownEntry == active_list(Sel)[Unwrap(Sel.selected) + 1]

\* the step acts on `child` of the current directory: it moves up, sends
\* the child's path as the choice, or descends into the child
ActsOn(child) ==
    IF child.kind = "MoveUp"
        THEN /\ parent(Sel.current_path) =
                    Some(nav'.component.file_selector_component.current_path)
             /\ asyncq' = asyncq
        ELSE \/ asyncq' = Append(asyncq, SelectPath(join(Sel.current_path, child.name),
                                                    Sel.selector_type))
             \/ /\ nav'.component.file_selector_component.current_path =
                        join(Sel.current_path, child.name)
                /\ asyncq' = asyncq

\* C35 as claimed: Confirm or Select with the selection on the i-th entry of
\* the displayed list (the filtered list when a filter is active) sends,
\* or descends into, that displayed entry
C35_EmitsTheEntryShown ==
    [][(/\ last'.op = "handle_action"
        /\ last'.arg.tag \in {"Confirm", "Select"}
        /\ OnShownEntry)
            => ActsOn(ShownEntry)]_vars

\* C36 as claimed: the list selection of a visible selector, when set, is an
\* index of the displayed list (the filtered list when a filter is active)
C36_SelectionWithinShownList ==
    (Sel.visible /\ IsSome(Sel.selected))
        => Unwrap(Sel.selected) < Len(active_list(Sel))

-----------------------------------------------------------------------------
(* The file selector of the Editor and the buffer behind it (under SpecEditor) *)

\* what the claim names of the buffer
BufferView(b) == <<b.text, b.cursor, b.selection_start, b.modified>>

\* an Action is dispatched to the Editor while its file selector is visible
DispatchedBehindSelector ==
    /\ last'.op = "action"
    /\ nav.component.kind = "Editor" /\ nav'.component.kind = "Editor"
    /\ nav.component.file_dialog.visible

\* C37 as claimed: no Action dispatched to the Editor while its file
\* selector is visible changes the buffer's text, cursor, selection or
\* modified flag
C37_SelectorIsModal ==
    [][DispatchedBehindSelector
            => BufferView(nav'.component.buffer) = BufferView(nav.component.buffer)]_vars

\* the same for the characters typed into the selector's input alone
TypedBehindSelector ==
    [][(DispatchedBehindSelector /\ last'.arg.tag = "Character")
            => BufferView(nav'.component.buffer) = BufferView(nav.component.buffer)]_vars

-----------------------------------------------------------------------------
(* The file history dialog of the Home screen (under Spec) *)

\* an Action other than the Quit that App takes itself is dispatched to the
\* Home screen while its file history dialog is showing
DispatchedBehindHistory ==
    /\ last'.op = "action" /\ last'.arg.tag # "Quit"
    /\ app'.pc # "panicked"
    /\ nav.component.kind = "Home"
    /\ nav.component.file_history_component.opened

\* the Home menu keeps its selection and triggers no option: nothing but
\* the dialog's own SelectPath is sent, no Action is sent and the file
\* picker stays hidden
MenuUntouched ==
    /\ nav'.component.list_state = nav.component.list_state
    /\ actionq' = Tail(actionq)
    /\ \A i \in DOMAIN asyncq' : i > Len(asyncq) => asyncq'[i].tag = "SelectPath"
    /\ nav'.component.file_selector_component.visible =
            nav.component.file_selector_component.visible

\* C38 as claimed: while the file history dialog is showing, every Action is
\* consumed and the Home menu behind it neither changes its selection nor
\* triggers an option
C38_HistoryIsModal ==
    [][DispatchedBehindHistory => (is_consumed(last'.res) /\ MenuUntouched)]_vars

\* the part of it about the menu alone
MenuBehindHistory == [][DispatchedBehindHistory => MenuUntouched]_vars

\* every other dispatch is consumed and leaves the menu as it is
OtherwiseModal ==
    [][(/\ DispatchedBehindHistory
        /\ ~nav.component.file_selector_component.visible
        /\ ~(/\ last'.arg.tag = "Confirm"
             /\ ~IsSome(nav.component.file_history_component.selected)))
            => (is_consumed(last'.res) /\ MenuUntouched)]_vars

-----------------------------------------------------------------------------
(* The move-up entry of the selector (under SpecSelector) *)

\* Confirm or Select is dispatched with the selection on the move-up entry
MoveUpChosen ==
    /\ last'.op \in {"handle_action", "panic"}
    /\ last'.arg.tag \in {"Confirm", "Select"}
    /\ Sel.visible /\ IsSome(Sel.selected)
    /\ Unwrap(Sel.selected) < Len(Sel.children)
    /\ Sel.children[Unwrap(Sel.selected) + 1] = MoveUp

\* C39 as claimed: choosing the move-up entry never fails: on a directory
\* without parent the selector stays visible on that directory and nothing
\* panics, and otherwise it lists the parent with the move-up entry first
C39_MoveUpNeverFails ==
    [][MoveUpChosen
        => /\ last'.op # "panic"
           /\ nav'.component.file_selector_component.visible
           /\ IF parent(Sel.current_path) = None
                THEN nav'.component.file_selector_component.current_path
                        = Sel.current_path
                ELSE /\ Some(nav'.component.file_selector_component.current_path)
                            = parent(Sel.current_path)
                     /\ Head(nav'.component.file_selector_component.children) = MoveUp]_vars

\* the part of it about a directory that has a parent
MoveUpWithParent ==
    [][(MoveUpChosen /\ parent(Sel.current_path) # None)
        => /\ last'.op # "panic"
           /\ nav'.component.file_selector_component.visible
           /\ Some(nav'.component.file_selector_component.current_path)
                    = parent(Sel.current_path)
           /\ Head(nav'.component.file_selector_component.children) = MoveUp
           /\ nav'.component.file_selector_component.selected = None]_vars

-----------------------------------------------------------------------------
(* The selector of the Editor after its SelectPath (under SpecEditor) *)

\* the Editor handles the SelectPath its file selector has sent
SelectPathHandled ==
    /\ last'.op = "async" /\ last'.arg.tag = "SelectPath"
    /\ nav.component.kind = "Editor" /\ nav'.component.kind = "Editor"

\* the Editor handles the contents read for a path that is a directory: the
\* path the Open File selector sends when it is confirmed with no entry
\* selected
DirectoryLoaded ==
    /\ last'.op = "async" /\ last'.arg.tag = "LoadFileContents"
    /\ nav.component.kind = "Editor" /\ nav'.component.kind = "Editor"
    /\ IsSome(nav.component.buffer.file_path)
    /\ is_dir(fs, Unwrap(nav.component.buffer.file_path))

\* C40 as claimed: once the Editor has handled a SelectPath its selector is
\* hidden, whatever the selector type and whether or not an entry was
\* selected, and confirming the Open File selector with no entry selected
\* leaves the buffer's text as it is
C40_SelectorHiddenAfterSelectPath ==
    [][/\ SelectPathHandled => ~nav'.component.file_dialog.visible
       /\ DirectoryLoaded => nav'.component.buffer.text = nav.component.buffer.text]_vars

\* the two parts of it, and the part that holds: SelectPath of the types
\* that save hides the selector
HiddenAfterSelectPath ==
    [][SelectPathHandled => ~nav'.component.file_dialog.visible]_vars
TextKeptAfterDirectory ==
    [][DirectoryLoaded => nav'.component.buffer.text = nav.component.buffer.text]_vars
HiddenAfterSaveTypes ==
    [][(SelectPathHandled /\ last'.arg.selector_type # "PickFile")
            => ~nav'.component.file_dialog.visible]_vars
====
